---- MODULE Spec2Model ----
(***************************************************************************)
(* Revenue / cash-collection aggregation of the Facturation.PRO MCP        *)
(* server: the aggregation tools (calculate_revenue,                       *)
(* calculate_quotes_revenue and the two wrappers of calculate_revenue)     *)
(* evaluated over the local store (tables invoices, payments and quotes),  *)
(* the stdin loop of the server that runs them, SyncService.syncAll and    *)
(* the rate limiter of the API client.                                     *)
(*                                                                         *)
(* Representation choices                                                  *)
(*  - SQLite REAL amounts are exact rationals [n, d] (lowest terms, d > 0); *)
(*    the store holds integral amounts, the quotient of paidRatioExpr is   *)
(*    the only source of fractions.  Floating-point rounding is not        *)
(*    modelled.                                                            *)
(*  - A date text 'YYYY-MM-DD' is the tuple <<y, m, d>>, a datetime text    *)
(*    'YYYY-MM-DDThh..' is <<y, m, d, h>>, SQL NULL is <<>>.  SQLite        *)
(*    compares these texts as strings: tuples are compared                 *)
(*    lexicographically, a proper prefix being smaller.                    *)
(*  - An absent numeric argument is 0 and an absent date argument is <<>>:  *)
(*    the code tests them by truthiness only.                              *)
(*  - The month names are written without their accents.                   *)
(*  - What a call reads from its environment is an input of its action:   *)
(*    the instant new Date() gives and the store call that is rejected, if *)
(*    any.  The time zone of the process is the variable tz.               *)
(***************************************************************************)
EXTENDS Integers, Sequences, FiniteSets, TLC

VARIABLES
    invoices,   \* table invoices: sequence of rows, the row at index k has id = k
    payments,   \* table payments: sequence of rows, the row at index k has id = k
    quotes,     \* table quotes: sequence of rows, the row at index k has id = k
    tz,         \* time zone of the process: "utc" or "west" (behind UTC)
    tool,       \* name of the tool whose call is in the state, "" when idle
    args,       \* arguments of the last tool call
    result,     \* object returned by the last tool call
    all_rows,   \* rows aggregated by the totals query of the last call
    t_rows,     \* rows aggregated by the monthly query of the last call
    queries,    \* store calls issued by the last tool call, in order
    stdin,      \* lines of input the server has not read yet
    handlers,   \* 'line' handlers suspended on a store call
    stdout,     \* responses written, in order
    isSyncing,  \* SyncService.isSyncing: a syncAll is in progress
    db,         \* Database.db of the service: "unset" or "set" (a handle exists)
    syncs,      \* the syncAll calls made on the service, each with its position
    requestCount,   \* BaseApiClient.requestCount
    lastResetTime,  \* BaseApiClient.lastResetTime, in ms
    now,        \* value of Date.now(), in ms
    requests,   \* the get / getPaginated calls made on the client
    sent        \* requests handed to the HTTP client since the counter was last reset

\* state of the synchronisation service and of the API client
syncVars == <<isSyncing, db, syncs>>

apiVars == <<requestCount, lastResetTime, now, requests, sent>>

vars ==
    <<invoices, payments, quotes, tz, tool, args, result, all_rows, t_rows,
      queries, stdin, handlers, stdout, syncVars, apiVars>>

(***************************************************************************)
(* Bounds of the model                                                     *)
(***************************************************************************)
\* rows of the store, invoices and payments together
MaxRows == 3

\* rows of the store (invoices, payments and quotes together) where the
\* environment of the calls varies
MaxEnvRows == 2

\* lines of input given to the server
MaxLines == 3

\* syncAll calls made on one SyncService
MaxSyncCalls == 3

\* get / getPaginated calls made on one API client
MaxApiCalls == 2

\* pages a getPaginated call fetches
MaxPages == 2

\* half minutes the clock runs for
MaxTicks == 4

(***************************************************************************)
(* The synchronisation service and the API client after construction       *)
(***************************************************************************)
\* a syncAll call that has not been made yet: its position, the step that
\* threw ("" when none did), the requests it gave the API and the rows it
\* wrote to the store
NotCalled == [pc |-> "idle", threw |-> "", api |-> 0, writes |-> 0]

\* constructor of SyncService; Database.db is assigned by connect() only
NoSync ==
    /\ isSyncing = FALSE
    /\ db = "unset"
    /\ syncs = [c \in 1..MaxSyncCalls |-> NotCalled]

\* a get / getPaginated call that has not been made yet: its position, the
\* page it is fetching (0 for get), the instant its last timer was armed and
\* the delay it was armed with, and for the request in flight how it came
\* to be sent ("check": straight from _checkRateLimit, "limit": after the
\* wait of _checkRateLimit, "retry": by the response interceptor) and when
NotRequested ==
    [pc |-> "idle", page |-> 0, armed |-> 0, delay |-> 0, via |-> "", sentAt |-> 0]

\* constructor of BaseApiClient: the clock of the model starts with it
NoApi ==
    /\ requestCount = 0
    /\ lastResetTime = 0
    /\ now = 0
    /\ requests = [c \in 1..MaxApiCalls |-> NotRequested]
    /\ sent = 0

(***************************************************************************)
(* Exact rational arithmetic                                               *)
(***************************************************************************)
Abs(x) == IF x < 0 THEN -x ELSE x

RECURSIVE GCD(_, _)
GCD(a, b) == IF b = 0 THEN a ELSE GCD(b, a % b)

\* n/d in lowest terms; d = 0 is kept as the marker of a division by zero
Rat(n, d) ==
    IF d = 0 THEN [n |-> 1, d |-> 0]
    ELSE LET g == GCD(Abs(n), Abs(d))
             s == IF d < 0 THEN -1 ELSE 1
         IN  [n |-> s * (n \div g), d |-> s * (d \div g)]

Zero == [n |-> 0, d |-> 1]
RInt(k) == [n |-> k, d |-> 1]
RAdd(a, b) == IF a.d = 0 \/ b.d = 0 THEN Rat(1, 0)
              ELSE Rat(a.n * b.d + b.n * a.d, a.d * b.d)
RMul(a, b) == IF a.d = 0 \/ b.d = 0 THEN Rat(1, 0)
              ELSE Rat(a.n * b.n, a.d * b.d)
RDiv(a, b) == IF a.d = 0 \/ b.d = 0 \/ b.n = 0 THEN Rat(1, 0)
              ELSE Rat(a.n * b.d, a.d * b.n)
RLess(a, b) == a.n * b.d < b.n * a.d

RECURSIVE SumField(_, _)
SumField(S, f) ==
    IF S = {} THEN Zero
    ELSE LET x == CHOOSE y \in S : TRUE
         IN  RAdd(x[f], SumField(S \ {x}, f))

(***************************************************************************)
(* Dates as texts                                                          *)
(***************************************************************************)
NULL == <<>>

RECURSIVE TextLE(_, _)
TextLE(a, b) ==
    IF a = <<>> THEN TRUE
    ELSE IF b = <<>> THEN FALSE
    ELSE IF Head(a) < Head(b) THEN TRUE
    ELSE IF Head(a) > Head(b) THEN FALSE
    ELSE TextLE(Tail(a), Tail(b))

\* x >= ? AND x <= ?  (a comparison with NULL is not true)
Between(x, lo, hi) == x # NULL /\ TextLE(lo, x) /\ TextLE(x, hi)

\* strftime('%m', x) read back by parseInt
MonthOf(x) == x[2]

\* `${year}-01-01` and `${year}-12-31`
FirstDay(y) == <<y, 1, 1>>
LastDay(y) == <<y, 12, 31>>

(***************************************************************************)
(* The store.  Column types follow the schema: balance has REAL affinity,  *)
(* so it holds NULL, a number, or a text that is not a number ('').        *)
(***************************************************************************)
BalNull == [k |-> "null", v |-> 0]
BalEmpty == [k |-> "text", v |-> 0]
BalReal(x) == [k |-> "real", v |-> x]

Inv(cust, idate, st, paid, bal, ht, ttc, vat, pdate, upd) ==
    [customer_id |-> cust, invoice_date |-> idate, status |-> st,
     paid_on |-> paid, balance |-> bal, total_ht |-> ht, total_ttc |-> ttc,
     vat_amount |-> vat, payment_date |-> pdate, updated_at |-> upd]

\* Rows an invoice of the store may be
InvoiceRows ==
    << \* paid in March 2024, balance 0
      Inv(1, <<2024, 2, 10>>, 1, <<2024, 3, 15>>, BalReal(0), 10, 12, 2,
          NULL, <<2024, 3, 16, 8>>),
      \* paid in November 2023, balance ''
      Inv(2, <<2023, 10, 1>>, 1, <<2023, 11, 20>>, BalEmpty, 4, 5, 1,
          NULL, <<2023, 11, 21, 8>>),
      \* paid in March 2024, balance NULL
      Inv(1, <<2023, 12, 15>>, 1, <<2024, 3, 15>>, BalNull, 5, 6, 1,
          <<2024, 3, 15>>, <<2024, 3, 16, 8>>),
      \* unpaid, 6 of 10 settled on 2024-05-01
      Inv(2, <<2024, 4, 1>>, 0, NULL, BalReal(4), 8, 10, 2,
          <<2024, 5, 1>>, <<2024, 5, 2, 8>>),
      \* unpaid, 3 of 4 settled, no payment_date, updated on 2023-12-31
      Inv(1, <<2023, 11, 20>>, 0, NULL, BalReal(1), 3, 4, 1,
          NULL, <<2023, 12, 31, 10>>),
      \* unpaid, balance '', no paid_on
      Inv(1, <<2024, 4, 1>>, 0, NULL, BalEmpty, 4, 5, 1,
          <<2024, 5, 1>>, <<2024, 5, 2, 8>>),
      \* unpaid, balance NULL, no paid_on
      Inv(2, <<2023, 10, 1>>, 0, NULL, BalNull, 5, 6, 1,
          NULL, <<2023, 11, 21, 8>>),
      \* unpaid, balance 0, no paid_on
      Inv(2, <<2024, 2, 10>>, 0, NULL, BalReal(0), 10, 12, 2,
          <<2024, 3, 15>>, <<2024, 3, 16, 8>>),
      \* marked paid in March 2024 although 1 of 4 is still due
      Inv(2, <<2024, 2, 10>>, 1, <<2024, 3, 15>>, BalReal(1), 3, 4, 1,
          <<2024, 5, 1>>, <<2024, 5, 2, 8>>),
      \* total 0, balance 1
      Inv(1, <<2024, 4, 1>>, 0, NULL, BalReal(1), 0, 0, 0,
          <<2024, 5, 1>>, <<2024, 5, 2, 8>>) >>

PaymentDates == { <<2024, 3, 20>>, <<2023, 11, 5>> }

\* Rows a payment of the store may be; invoice_id references an invoice
PaymentRows(n) ==
    [invoice_id : 1..n, payment_date : PaymentDates,
     amount_ht : {5}, amount_ttc : {6}, amount_vat : {1}]

SeqsUpTo(S, n) == UNION { [1..k -> S] : k \in 0..n }

\* The invoices tables of n rows.  The rows are listed in the order of
\* InvoiceRows: every query aggregates over sets of rows, so a permutation of
\* the ids changes no returned figure.
InvoiceTables(n) ==
    { [j \in 1..n |-> InvoiceRows[f[j]]] :
        f \in { g \in [1..n -> DOMAIN InvoiceRows] :
                  \A j \in 1..n : j < n => g[j] <= g[j + 1] } }

InvoiceIds == DOMAIN invoices
PaymentIds == DOMAIN payments

\* A row of table quotes (status 0: pending, 1: accepted, 9: refused)
Quote(cust, qdate, st, ht, ttc, vat) ==
    [customer_id |-> cust, quote_date |-> qdate, status |-> st,
     total_ht |-> ht, total_ttc |-> ttc, vat_amount |-> vat]

QuoteRows ==
    << Quote(1, <<2024, 3, 10>>, 1, 10, 12, 2),
       Quote(2, <<2024, 1, 1>>, 0, 5, 6, 1),
       Quote(1, <<2023, 7, 1>>, 9, 3, 4, 1) >>

\* The quotes tables of n rows, listed in the order of QuoteRows
QuoteTables(n) ==
    { [j \in 1..n |-> QuoteRows[f[j]]] :
        f \in { g \in [1..n -> DOMAIN QuoteRows] :
                  \A j \in 1..n : j < n => g[j] <= g[j + 1] } }

QuoteIds == DOMAIN quotes

(***************************************************************************)
(* SQL fragments of CalculateRevenueTool.execute                           *)
(***************************************************************************)
\* IIF(balance IS NULL OR balance = '', 0.0, CAST(balance AS REAL))
paidBalance(i) ==
    IF i.balance.k = "null" \/ i.balance.k = "text" THEN 0 ELSE i.balance.v

\* COALESCE(payment_date, updated_at)
paidDateExpr(i) ==
    IF i.payment_date # NULL THEN i.payment_date ELSE i.updated_at

\* mutation: the share still owed instead of the share paid
paidRatioExpr_Owed(i) ==
    IF i.total_ttc = 0 THEN Zero
    ELSE RDiv(RInt(paidBalance(i)), RInt(i.total_ttc))

\* mutation: the quotient without the IIF(total_ttc = 0, ...) guard
paidRatioExpr_Unguarded(i) ==
    RDiv(RInt(i.total_ttc - paidBalance(i)), RInt(i.total_ttc))

\* IIF(total_ttc = 0, 0.0, (total_ttc - paidBalance) / total_ttc)
paidRatioExpr(i) ==
    IF i.total_ttc = 0 THEN Zero
    ELSE RDiv(RInt(i.total_ttc - paidBalance(i)), RInt(i.total_ttc))

\* mutation: FULL also asks for a stored balance equal to 0
FullCond_ZeroBalance(i, lo, hi) ==
    i.status = 1 /\ i.balance = BalReal(0) /\ Between(i.paid_on, lo, hi)

\* status = 1 AND paid_on >= ? AND paid_on <= ?
FullCond(i, lo, hi) == i.status = 1 /\ Between(i.paid_on, lo, hi)

\* mutation: PARTIAL without the (paidBalance > 0) test, as in avgCaseTTC
PartialCond_NoLowerBound(i, lo, hi) ==
    /\ paidBalance(i) < i.total_ttc
    /\ Between(paidDateExpr(i), lo, hi)

\* (paidBalance > 0) AND (paidBalance < total_ttc)
\*   AND paidDateExpr >= ? AND paidDateExpr <= ?
PartialCond(i, lo, hi) ==
    /\ paidBalance(i) > 0
    /\ paidBalance(i) < i.total_ttc
    /\ Between(paidDateExpr(i), lo, hi)

\* the CASE of sumCaseTTC / sumCaseHT / sumCaseVAT for one invoice
sumCaseTTC(i, lo, hi) ==
    IF FullCond(i, lo, hi) THEN RInt(i.total_ttc)
    ELSE IF PartialCond(i, lo, hi) THEN RInt(i.total_ttc - paidBalance(i))
    ELSE Zero

sumCaseHT(i, lo, hi) ==
    IF FullCond(i, lo, hi) THEN RInt(i.total_ht)
    ELSE IF PartialCond(i, lo, hi) THEN RMul(RInt(i.total_ht), paidRatioExpr(i))
    ELSE Zero

sumCaseVAT(i, lo, hi) ==
    IF FullCond(i, lo, hi) THEN RInt(i.vat_amount)
    ELSE IF PartialCond(i, lo, hi) THEN RMul(RInt(i.vat_amount), paidRatioExpr(i))
    ELSE Zero

\* the CASE of avgCaseTTC: no (paidBalance > 0) test, ELSE NULL
avgCaseNull(i, lo, hi) ==
    ~ FullCond(i, lo, hi)
    /\ ~ (paidBalance(i) < i.total_ttc /\ Between(paidDateExpr(i), lo, hi))

avgCaseTTC(i, lo, hi) ==
    IF FullCond(i, lo, hi) THEN RInt(i.total_ttc)
    ELSE IF ~ avgCaseNull(i, lo, hi) THEN RInt(i.total_ttc - paidBalance(i))
    ELSE Zero

\* mutation: the status argument is not applied
statusFilter_Ignored(i, status) == TRUE

\* status filter of the invoiced mode
statusFilter(i, status) ==
    IF status = "paye" THEN i.status = 1
    ELSE IF status = "non_paye" THEN i.status = 0
    ELSE TRUE

(***************************************************************************)
(* Rows of the relations the queries aggregate.  src names the SELECT of   *)
(* the UNION ALL a row comes from; (src, id) identifies a row.             *)
(***************************************************************************)
Row(src, id, inv, cust, month, ttc, ht, vat, avg, avgnull) ==
    [src |-> src, id |-> id, invoice_id |-> inv, customer_id |-> cust,
     month |-> month, amount_ttc |-> ttc, amount_ht |-> ht,
     amount_vat |-> vat, avg |-> avg, avg_null |-> avgnull]

\* database.getPaymentsCountBetween(start, end)
getPaymentsCountBetween(lo, hi) ==
    Cardinality({ k \in PaymentIds : Between(payments[k].payment_date, lo, hi) })

\* CTE p of the totals query: payments JOIN invoices, payment_date in window
pTotals(lo, hi) ==
    { k \in PaymentIds :
        /\ payments[k].invoice_id \in InvoiceIds
        /\ Between(payments[k].payment_date, lo, hi) }

\* CTE p of the monthly query: payments with payment_date in window
pMonthly(lo, hi) ==
    { k \in PaymentIds : Between(payments[k].payment_date, lo, hi) }

PaymentRow(k) ==
    LET p == payments[k]
    IN  Row("p", k, p.invoice_id,
            IF p.invoice_id \in InvoiceIds
            THEN invoices[p.invoice_id].customer_id ELSE 0,
            MonthOf(p.payment_date),
            RInt(p.amount_ttc), RInt(p.amount_ht), RInt(p.amount_vat),
            RInt(p.amount_ttc), FALSE)

FullRow(id) ==
    LET i == invoices[id]
    IN  Row("full", id, id, i.customer_id, MonthOf(i.paid_on),
            RInt(i.total_ttc), RInt(i.total_ht), RInt(i.vat_amount),
            RInt(i.total_ttc), FALSE)

PartialRow(id) ==
    LET i == invoices[id]
    IN  Row("partial", id, id, i.customer_id, MonthOf(paidDateExpr(i)),
            RInt(i.total_ttc - paidBalance(i)),
            RMul(RInt(i.total_ht), paidRatioExpr(i)),
            RMul(RInt(i.vat_amount), paidRatioExpr(i)),
            RInt(i.total_ttc - paidBalance(i)), FALSE)

\* mutation: the derived branches do not exclude the invoices of p
NotInP_Dropped(id, P) == TRUE

\* id NOT IN (SELECT invoice_id FROM p)
NotInP(id, P) == \A k \in P : payments[k].invoice_id # id

\* FROM ( p UNION ALL full UNION ALL partial ) of either ledger query
LedgerRows(P, lo, hi) ==
    { PaymentRow(k) : k \in P }
    \cup { FullRow(id) : id \in { j \in InvoiceIds :
                FullCond(invoices[j], lo, hi) /\ NotInP(j, P) } }
    \cup { PartialRow(id) : id \in { j \in InvoiceIds :
                PartialCond(invoices[j], lo, hi) /\ NotInP(j, P) } }

\* fallback totals: every invoice, with the values of the CASE expressions
FallbackTotalsRows(lo, hi) ==
    { Row("case", id, id, invoices[id].customer_id, 0,
          sumCaseTTC(invoices[id], lo, hi), sumCaseHT(invoices[id], lo, hi),
          sumCaseVAT(invoices[id], lo, hi), avgCaseTTC(invoices[id], lo, hi),
          avgCaseNull(invoices[id], lo, hi)) : id \in InvoiceIds }

\* fallback monthly: FROM ( full UNION ALL partial )
FallbackMonthlyRows(lo, hi) ==
    { FullRow(id) : id \in { j \in InvoiceIds : FullCond(invoices[j], lo, hi) } }
    \cup { PartialRow(id) : id \in { j \in InvoiceIds :
                PartialCond(invoices[j], lo, hi) } }

\* invoiced mode: WHERE invoice_date >= ? AND invoice_date <= ? statusFilter
InvoicedRows(lo, hi, status) ==
    { Row("invoice", id, id, invoices[id].customer_id,
          MonthOf(invoices[id].invoice_date),
          RInt(invoices[id].total_ttc), RInt(invoices[id].total_ht),
          RInt(invoices[id].vat_amount), RInt(invoices[id].total_ttc), FALSE) :
      id \in { j \in InvoiceIds :
                /\ Between(invoices[j].invoice_date, lo, hi)
                /\ statusFilter(invoices[j], status) } }

(***************************************************************************)
(* Reduction of the rows into the returned figures                         *)
(***************************************************************************)
\* the six aggregates of the totals query, after the `|| 0` of the result
YearSummary(rows) ==
    LET counted == { r \in rows : ~ r.avg_null }
    IN  [total_invoices |-> Cardinality({ r.invoice_id : r \in rows }),
         total_invoiced_ttc |-> SumField(rows, "amount_ttc"),
         total_invoiced_ht |-> SumField(rows, "amount_ht"),
         total_vat_amount |-> SumField(rows, "amount_vat"),
         avg_invoice_amount |->
             IF counted = {} THEN Zero
             ELSE RDiv(SumField(counted, "avg"), RInt(Cardinality(counted))),
         unique_customers |-> Cardinality({ r.customer_id : r \in rows })]

getMonthName(month) ==
    <<"Janvier", "Fevrier", "Mars", "Avril", "Mai", "Juin", "Juillet",
      "Aout", "Septembre", "Octobre", "Novembre", "Decembre">>[month]

\* one entry of monthly_breakdown: the row of the month, or zeros
MonthEntry(rows, month) ==
    LET mine == { r \in rows : r.month = month }
    IN  [month |-> month,
         month_name |-> getMonthName(month),
         total_invoices |->
             Cardinality({ r.invoice_id : r \in { x \in mine : x.src = "p" } })
             + Cardinality({ r \in mine : r.src # "p" }),
         total_invoiced_ttc |-> SumField(mine, "amount_ttc"),
         total_invoiced_ht |-> SumField(mine, "amount_ht"),
         total_vat_amount |-> SumField(mine, "amount_vat")]

\* mutation: the rows of the monthly query are returned as they are, the
\* months without data are not filled in
monthlyBreakdown_OnlyData(rows) ==
    [m \in { r.month : r \in rows } |-> MonthEntry(rows, m)]

monthlyBreakdown(rows) == [m \in 1..12 |-> MonthEntry(rows, m)]

(***************************************************************************)
(* Arguments of a call                                                     *)
(***************************************************************************)
\* new Date().getFullYear()
CurrentYear == 2024

\* the instants new Date() may give during a call, in milliseconds after
\* the first of them
Epoch == 0
Instants == {Epoch, Epoch + 1}

\* the date text is not one new Date() can parse
InvalidDate(d) == d[2] \notin 1..12 \/ d[3] \notin 1..31

\* getFullYear() of an Invalid Date; as the text 'NaN' it sorts after every
\* year written in digits
NaN == 99999

\* new Date(start_date).getFullYear(): the text is read as midnight UTC and
\* the year is taken in local time, so behind UTC the first of January
\* belongs to the year before
YearOfDate(d) ==
    IF InvalidDate(d) THEN NaN
    ELSE IF tz = "west" /\ d[2] = 1 /\ d[3] = 1 THEN d[1] - 1
    ELSE d[1]

Args(year, sy, ey, sd, ed, status, byPayment) ==
    [year |-> year, start_year |-> sy, end_year |-> ey, start_date |-> sd,
     end_date |-> ed, status |-> status, filter_by_payment_date |-> byPayment]

NoArgs == Args(0, 0, 0, NULL, NULL, "tous", "absent")

\* the period part of the arguments a call may carry
Periods ==
    { <<0, 0, 0, NULL, NULL>>,
      <<2023, 0, 0, NULL, NULL>>,
      <<2024, 0, 0, NULL, NULL>>,
      <<0, 2023, 2024, NULL, NULL>>,
      <<2023, 0, 0, <<2024, 3, 1>>, <<2024, 4, 30>> >> }

\* status and filter_by_payment_date ("absent": not supplied)
Modes ==
    { <<"tous", "absent">> }
    \cup ({"tous", "paye", "non_paye"} \X {"true", "false"})

ArgsDomain ==
    { Args(p[1], p[2], p[3], p[4], p[5], m[1], m[2]) : p \in Periods, m \in Modes }

(***************************************************************************)
(* CalculateRevenueTool.execute                                            *)
(***************************************************************************)
\* mutation: the default of filter_by_payment_date is false
byPaymentDate_DefaultFalse(a) == a.filter_by_payment_date = "true"

\* filter_by_payment_date = true unless false is supplied
byPaymentDate(a) == a.filter_by_payment_date # "false"

hasDates(a) == a.start_date # NULL /\ a.end_date # NULL

calculatedYear(a) ==
    IF hasDates(a) THEN YearOfDate(a.start_date)
    ELSE IF a.year # 0 THEN a.year
    ELSE IF a.start_year # 0 /\ a.end_year # 0 THEN a.start_year
    ELSE CurrentYear

currentStartDate(a) ==
    IF hasDates(a) THEN a.start_date
    ELSE IF a.year # 0 THEN FirstDay(a.year)
    ELSE IF a.start_year # 0 /\ a.end_year # 0 THEN FirstDay(a.start_year)
    ELSE FirstDay(CurrentYear)

currentEndDate(a) ==
    IF hasDates(a) THEN a.end_date
    ELSE IF a.year # 0 THEN LastDay(a.year)
    ELSE IF a.start_year # 0 /\ a.end_year # 0 THEN LastDay(a.end_year)
    ELSE LastDay(CurrentYear)

\* mutation: the monthly query starts with the year whatever the arguments
yearStart_OfYear(a) == FirstDay(calculatedYear(a))

\* window of the monthly query
yearStart(a) ==
    IF byPaymentDate(a) /\ hasDates(a) THEN currentStartDate(a)
    ELSE FirstDay(calculatedYear(a))

\* mutation: the monthly query ends where the totals query ends
yearEnd_AsTotals(a) == IF byPaymentDate(a) THEN currentEndDate(a) ELSE LastDay(calculatedYear(a))

yearEnd(a) ==
    IF byPaymentDate(a) /\ hasDates(a) THEN currentEndDate(a)
    ELSE LastDay(calculatedYear(a))

\* one awaited store call; ok: the promise was fulfilled
Query(op, path, lo, hi) ==
    [op |-> op, path |-> path, lo |-> lo, hi |-> hi, ok |-> TRUE]

\* mutation: the totals query takes the ledger path without looking at the
\* count
totalsPath_LedgerAlways(a) ==
    IF ~ byPaymentDate(a) THEN "invoiced" ELSE "ledger"

\* path of the totals query and of the monthly query
totalsPath(a) ==
    IF ~ byPaymentDate(a) THEN "invoiced"
    ELSE IF getPaymentsCountBetween(currentStartDate(a), currentEndDate(a)) > 0
         THEN "ledger" ELSE "fallback"

monthlyPath(a) ==
    IF ~ byPaymentDate(a) THEN "invoiced"
    ELSE IF getPaymentsCountBetween(yearStart(a), yearEnd(a)) > 0
         THEN "ledger" ELSE "fallback"

\* mutation: the status filter is applied to the derived rows of the
\* COLLECTED mode too
totalsRows_StatusFiltered(a) ==
    LET lo == currentStartDate(a)
        hi == currentEndDate(a)
        kept(rows) ==
            { r \in rows :
                r.src = "p" \/ statusFilter(invoices[r.invoice_id], a.status) }
    IN  CASE totalsPath(a) = "ledger" -> kept(LedgerRows(pTotals(lo, hi), lo, hi))
          [] totalsPath(a) = "fallback" -> kept(FallbackTotalsRows(lo, hi))
          [] OTHER -> InvoicedRows(lo, hi, a.status)

\* rows behind yearSummary = database.get(sql, yearParams)
totalsRows(a) ==
    LET lo == currentStartDate(a)
        hi == currentEndDate(a)
    IN  CASE totalsPath(a) = "ledger" -> LedgerRows(pTotals(lo, hi), lo, hi)
          [] totalsPath(a) = "fallback" -> FallbackTotalsRows(lo, hi)
          [] OTHER -> InvoicedRows(lo, hi, a.status)

\* rows behind monthlyResults = database.all(monthlySql, monthlyParams)
monthlyRows(a) ==
    LET lo == yearStart(a)
        hi == yearEnd(a)
    IN  CASE monthlyPath(a) = "ledger" -> LedgerRows(pMonthly(lo, hi), lo, hi)
          [] monthlyPath(a) = "fallback" -> FallbackMonthlyRows(lo, hi)
          [] OTHER -> InvoicedRows(lo, hi, a.status)

\* the store calls of one execution, in the order they are awaited
storeCalls(a) ==
    (IF byPaymentDate(a)
     THEN << Query("getPaymentsCountBetween", "", currentStartDate(a), currentEndDate(a)) >>
     ELSE << >>)
    \o << Query("get", totalsPath(a), currentStartDate(a), currentEndDate(a)) >>
    \o (IF byPaymentDate(a)
        THEN << Query("getPaymentsCountBetween", "", yearStart(a), yearEnd(a)) >>
        ELSE << >>)
    \o << Query("all", monthlyPath(a), yearStart(a), yearEnd(a)) >>

\* the value of an argument of another type than its parameter declares
WrongType == "wrong type"

\* a call with no arguments object (args is undefined): reading a parameter
\* of it finds none given, as validateArgs does after `args = args || {}`
Undefined ==
    [key \in DOMAIN NoArgs \cup {"undefined"} |->
        IF key = "undefined" THEN TRUE ELSE NoArgs[key]]

\* `const { year, ... } = args` succeeds: it throws for an undefined args
destructured(a) == a # Undefined

\* BaseTool.validateArgs: the message of the error thrown, "" when the
\* arguments pass.  required: the required parameters (absent when 0 or
\* NULL), typed: the supplied text or boolean parameters to type-check
validateArgs(a, required, typed) ==
    IF \E key \in required : a[key] = (IF key = "year" THEN 0 ELSE NULL)
    THEN "Parametre requis manquant"
    ELSE IF \E key \in typed : a[key] = WrongType
    THEN "Parametre doit etre du type declare"
    ELSE ""

\* validateArgs with the parameters of calculate_revenue
validRevenueArgs(a) ==
    validateArgs(a, {}, {"status", "filter_by_payment_date"}) = ""

\* mutation: the instant is written into the payload as well
formatResult_StampedData(data, t) ==
    [success |-> TRUE,
     data |-> [f \in DOMAIN data \cup {"timestamp"} |->
                  IF f = "timestamp" THEN t ELSE data[f]],
     timestamp |-> t]

\* BaseTool.formatResult(result) at instant t
formatResult(data, t) == [success |-> TRUE, data |-> data, timestamp |-> t]

\* BaseTool.handleError(error) at instant t
handleError(message, t) == [success |-> FALSE, error |-> message, timestamp |-> t]

\* the object { year, query_type, revenue } given to formatResult
revenueData(a) ==
    LET yearSummary == YearSummary(totalsRows(a))
    IN  [year |-> calculatedYear(a),
         query_type |-> IF byPaymentDate(a) THEN "paid" ELSE "invoiced",
         revenue |->
             [f \in DOMAIN yearSummary \cup {"monthly_breakdown"} |->
                 IF f = "monthly_breakdown" THEN monthlyBreakdown(monthlyRows(a))
                 ELSE yearSummary[f]]]

\* result before any call
NoResult == [success |-> FALSE, error |-> "", timestamp |-> 0]

\* the store calls made when the f-th one is rejected (f = 0: none is)
callsMade(calls, f) ==
    IF f \in 1..Len(calls)
    THEN [k \in 1..f |-> IF k = f THEN [calls[k] EXCEPT !.ok = FALSE] ELSE calls[k]]
    ELSE calls

\* mutation: a rejected store call is reported together with the figures
resultOf_FiguresWithError(a, t, f) ==
    IF ~ validRevenueArgs(a)
    THEN handleError(validateArgs(a, {}, {"status", "filter_by_payment_date"}), t)
    ELSE IF ~ destructured(a) THEN handleError("Cannot destructure", t)
    ELSE IF f \in 1..Len(storeCalls(a))
    THEN [success |-> FALSE, error |-> "SQLITE_ERROR", timestamp |-> t,
          data |-> revenueData(a)]
    ELSE formatResult(revenueData(a), t)

\* the object execute(args, database) returns: t is the instant read for
\* the timestamp, f the store call rejected
resultOf(a, t, f) ==
    IF ~ validRevenueArgs(a)
    THEN handleError(validateArgs(a, {}, {"status", "filter_by_payment_date"}), t)
    ELSE IF ~ destructured(a) THEN handleError("Cannot destructure", t)
    ELSE IF f \in 1..Len(storeCalls(a)) THEN handleError("SQLITE_ERROR", t)
    ELSE formatResult(revenueData(a), t)

\* mutation: the call deletes the payments it has counted in the totals
execute_ConsumingLedger(a, t, f) ==
    LET valid == validRevenueArgs(a) /\ destructured(a)
        made == IF valid THEN callsMade(storeCalls(a), f) ELSE << >>
        answered(op) == \E k \in DOMAIN made : made[k].op = op /\ made[k].ok
        counted(p) ==
            Between(p.payment_date, currentStartDate(a), currentEndDate(a))
    IN  /\ tool = ""
        /\ tool' = "calculate_revenue"
        /\ args' = a
        /\ all_rows' = IF valid /\ answered("get") THEN totalsRows(a) ELSE {}
        /\ t_rows' = IF valid /\ answered("all") THEN monthlyRows(a) ELSE {}
        /\ queries' = made
        /\ result' = resultOf(a, t, f)
        /\ payments' = IF valid /\ byPaymentDate(a)
                       THEN SelectSeq(payments, LAMBDA p : ~ counted(p))
                       ELSE payments
        /\ UNCHANGED <<syncVars, apiVars, invoices, quotes, tz, stdin, handlers, stdout>>

\* CalculateRevenueTool.execute(args, database), the whole call
execute(a, t, f) ==
    LET valid == validRevenueArgs(a) /\ destructured(a)
        made == IF valid THEN callsMade(storeCalls(a), f) ELSE << >>
        answered(op) == \E k \in DOMAIN made : made[k].op = op /\ made[k].ok
    IN  /\ tool = ""
        /\ tool' = "calculate_revenue"
        /\ args' = a
        /\ all_rows' = IF valid /\ answered("get") THEN totalsRows(a) ELSE {}
        /\ t_rows' = IF valid /\ answered("all") THEN monthlyRows(a) ELSE {}
        /\ queries' = made
        /\ result' = resultOf(a, t, f)
        /\ UNCHANGED <<syncVars, apiVars, invoices, payments, quotes, tz, stdin, handlers, stdout>>

(***************************************************************************)
(* CalculateQuotesRevenueTool.execute                                      *)
(***************************************************************************)
\* mutation: the filter 'en_attente' selects nothing
quotesStatusFilter_PendingIgnored(q, status) ==
    IF status = "acceptes" THEN q.status = 1
    ELSE IF status = "refuses" THEN q.status = 9
    ELSE TRUE

quotesStatusFilter(q, status) ==
    IF status = "acceptes" THEN q.status = 1
    ELSE IF status = "en_attente" THEN q.status = 0
    ELSE IF status = "refuses" THEN q.status = 9
    ELSE TRUE

quotesYear(a) ==
    IF hasDates(a) THEN YearOfDate(a.start_date)
    ELSE IF a.year # 0 THEN a.year
    ELSE CurrentYear

quotesStartDate(a) ==
    IF hasDates(a) THEN a.start_date
    ELSE IF a.year # 0 THEN FirstDay(a.year)
    ELSE FirstDay(CurrentYear)

quotesEndDate(a) ==
    IF hasDates(a) THEN a.end_date
    ELSE IF a.year # 0 THEN LastDay(a.year)
    ELSE LastDay(CurrentYear)

\* rows of FROM quotes WHERE quote_date >= ? AND quote_date <= ? statusFilter
QuotesRows(lo, hi, status) ==
    { Row("quote", id, id, quotes[id].customer_id, MonthOf(quotes[id].quote_date),
          RInt(quotes[id].total_ttc), RInt(quotes[id].total_ht),
          RInt(quotes[id].vat_amount), RInt(quotes[id].total_ttc), FALSE) :
      id \in { j \in QuoteIds :
                /\ Between(quotes[j].quote_date, lo, hi)
                /\ quotesStatusFilter(quotes[j], status) } }

quotesTotalsRows(a) == QuotesRows(quotesStartDate(a), quotesEndDate(a), a.status)

quotesMonthlyRows(a) ==
    QuotesRows(FirstDay(quotesYear(a)), LastDay(quotesYear(a)), a.status)

\* the six aggregates of the totals query, after the `|| 0` of the result
QuotesSummary(rows) ==
    [total_quotes |-> Cardinality(rows),
     total_quouted_ttc |-> SumField(rows, "amount_ttc"),
     total_quouted_ht |-> SumField(rows, "amount_ht"),
     total_vat_amount |-> SumField(rows, "amount_vat"),
     avg_quote_amount |->
         IF rows = {} THEN Zero
         ELSE RDiv(SumField(rows, "avg"), RInt(Cardinality(rows))),
     unique_customers |-> Cardinality({ r.customer_id : r \in rows })]

QuotesMonthEntry(rows, month) ==
    LET mine == { r \in rows : r.month = month }
    IN  [month |-> month,
         month_name |-> getMonthName(month),
         total_quotes |-> Cardinality(mine),
         total_quouted_ttc |-> SumField(mine, "amount_ttc"),
         total_quouted_ht |-> SumField(mine, "amount_ht"),
         total_vat_amount |-> SumField(mine, "amount_vat")]

quotesBreakdown(rows) == [m \in 1..12 |-> QuotesMonthEntry(rows, m)]

quotesCalls(a) ==
    << Query("get", "quotes", quotesStartDate(a), quotesEndDate(a)),
       Query("all", "quotes", FirstDay(quotesYear(a)), LastDay(quotesYear(a))) >>

\* the object { year, query_type, quotes } given to formatResult
quotesData(a) ==
    LET yearSummary == QuotesSummary(quotesTotalsRows(a))
    IN  [year |-> quotesYear(a),
         query_type |-> "quotes",
         quotes |->
             [f \in DOMAIN yearSummary \cup {"monthly_breakdown"} |->
                 IF f = "monthly_breakdown" THEN quotesBreakdown(quotesMonthlyRows(a))
                 ELSE yearSummary[f]]]

validQuotesArgs(a) == validateArgs(a, {}, {"status"}) = ""

quotesResultOf(a, t, f) ==
    IF ~ validQuotesArgs(a) THEN handleError(validateArgs(a, {}, {"status"}), t)
    ELSE IF ~ destructured(a) THEN handleError("Cannot destructure", t)
    ELSE IF f \in 1..Len(quotesCalls(a)) THEN handleError("SQLITE_ERROR", t)
    ELSE formatResult(quotesData(a), t)

\* CalculateQuotesRevenueTool.execute(args, database), the whole call
executeQuotes(a, t, f) ==
    LET valid == validQuotesArgs(a) /\ destructured(a)
        made == IF valid THEN callsMade(quotesCalls(a), f) ELSE << >>
        answered(op) == \E k \in DOMAIN made : made[k].op = op /\ made[k].ok
    IN  /\ tool = ""
        /\ tool' = "calculate_quotes_revenue"
        /\ args' = a
        /\ all_rows' = IF valid /\ answered("get") THEN quotesTotalsRows(a) ELSE {}
        /\ t_rows' = IF valid /\ answered("all") THEN quotesMonthlyRows(a) ELSE {}
        /\ queries' = made
        /\ result' = quotesResultOf(a, t, f)
        /\ UNCHANGED <<syncVars, apiVars, invoices, payments, quotes, tz, stdin, handlers, stdout>>

(***************************************************************************)
(* EncaissementsPeriodeTool.execute and VentilerEncaissementsTool.execute  *)
(***************************************************************************)
\* new Date().toISOString().split('T')[0]
Today == <<2024, 6, 15>>

\* mutation: an omitted end_date is handed on as it is
encaissementsArgs_NoDefault(a) ==
    Args(0, 0, 0, a.start_date, a.end_date, "tous", "true")

\* the arguments EncaissementsPeriodeTool hands to calculate_revenue
encaissementsArgs(a) ==
    Args(0, 0, 0, a.start_date,
         IF a.end_date = NULL THEN Today ELSE a.end_date, "tous", "true")

\* the arguments VentilerEncaissementsTool hands to calculate_revenue
ventilerArgs(a) == Args(a.year, 0, 0, NULL, NULL, "tous", "true")

validEncaissementsArgs(a) == validateArgs(a, {"start_date"}, {}) = ""

validVentilerArgs(a) == validateArgs(a, {"year"}, {}) = ""

\* EncaissementsPeriodeTool.execute(args, database), the whole call
executeEncaissements(a, t, f) ==
    LET valid == validEncaissementsArgs(a)
        inner == encaissementsArgs(a)
        made == IF valid THEN callsMade(storeCalls(inner), f) ELSE << >>
        answered(op) == \E k \in DOMAIN made : made[k].op = op /\ made[k].ok
    IN  /\ tool = ""
        /\ tool' = "encaissements_periode"
        /\ args' = a
        /\ all_rows' = IF valid /\ answered("get") THEN totalsRows(inner) ELSE {}
        /\ t_rows' = IF valid /\ answered("all") THEN monthlyRows(inner) ELSE {}
        /\ queries' = made
        /\ result' = IF valid THEN resultOf(inner, t, f)
                     ELSE handleError(validateArgs(a, {"start_date"}, {}), t)
        /\ UNCHANGED <<syncVars, apiVars, invoices, payments, quotes, tz, stdin, handlers, stdout>>

\* the object { year, query_type, totals, monthly } VentilerEncaissementsTool
\* gives to formatResult
ventilerData(res) ==
    [year |-> res.data.year,
     query_type |-> "paid_monthly",
     total_invoiced_ht |-> res.data.revenue.total_invoiced_ht,
     total_invoiced_ttc |-> res.data.revenue.total_invoiced_ttc,
     total_vat_amount |-> res.data.revenue.total_vat_amount,
     monthly |-> res.data.revenue.monthly_breakdown]

\* VentilerEncaissementsTool.execute(args, database), the whole call
executeVentiler(a, t, f) ==
    LET valid == validVentilerArgs(a)
        inner == ventilerArgs(a)
        res == resultOf(inner, t, f)
        made == IF valid THEN callsMade(storeCalls(inner), f) ELSE << >>
        answered(op) == \E k \in DOMAIN made : made[k].op = op /\ made[k].ok
    IN  /\ tool = ""
        /\ tool' = "ventiler_encaissements"
        /\ args' = a
        /\ all_rows' = IF valid /\ answered("get") THEN totalsRows(inner) ELSE {}
        /\ t_rows' = IF valid /\ answered("all") THEN monthlyRows(inner) ELSE {}
        /\ queries' = made
        /\ result' = IF ~ valid THEN handleError(validateArgs(a, {"year"}, {}), t)
                     ELSE IF ~ res.success THEN res
                     ELSE formatResult(ventilerData(res), t)
        /\ UNCHANGED <<syncVars, apiVars, invoices, payments, quotes, tz, stdin, handlers, stdout>>

(***************************************************************************)
(* Specification: any store within the bounds, then any sequence of calls, *)
(* one at a time                                                           *)
(***************************************************************************)
Init ==
    /\ invoices \in UNION { InvoiceTables(n) : n \in 0..MaxRows }
    /\ payments \in SeqsUpTo(PaymentRows(Len(invoices)), MaxRows - Len(invoices))
    /\ quotes = << >>
    /\ tz = "utc"
    /\ tool = ""
    /\ args = NoArgs
    /\ result = NoResult
    /\ all_rows = {}
    /\ t_rows = {}
    /\ queries = << >>
    /\ stdin = << >>
    /\ handlers = {}
    /\ stdout = << >>
    /\ NoSync
    /\ NoApi

\* a call with well-formed arguments, answered by the store
CalculateRevenue == \E a \in ArgsDomain : execute(a, Epoch, 0)

\* the result has been serialised into the response: the server waits for
\* the next request
Respond ==
    /\ tool # ""
    /\ tool' = ""
    /\ args' = NoArgs
    /\ result' = NoResult
    /\ all_rows' = {}
    /\ t_rows' = {}
    /\ queries' = << >>
    /\ UNCHANGED <<syncVars, apiVars, invoices, payments, quotes, tz, stdin, handlers, stdout>>

Next == CalculateRevenue \/ Respond

Spec == Init /\ [][Next]_vars

(***************************************************************************)
(* Specification of the calls in their environment: either time zone, any  *)
(* reading of the clock, a store call that may be rejected, arguments that *)
(* may be malformed, the four aggregation tools                            *)
(***************************************************************************)
EnvPeriods ==
    { <<0, 0, 0, NULL, NULL>>,
      <<2024, 0, 0, NULL, NULL>>,
      <<2023, 0, 0, <<2024, 1, 1>>, <<2024, 3, 31>> >>,
      <<0, 0, 0, <<2024, 4, 30>>, <<2024, 3, 1>> >>,
      <<0, 0, 0, <<2024, 13, 45>>, <<2024, 12, 31>> >> }

EnvRevenueArgs ==
    { Args(p[1], p[2], p[3], p[4], p[5], "tous", m) :
        p \in EnvPeriods, m \in {"absent", "false", WrongType} } \cup {Undefined}

EnvQuotesArgs ==
    { Args(p[1], 0, 0, p[4], p[5], st, "absent") :
        p \in EnvPeriods,
        st \in {"tous", "acceptes", "en_attente", "refuses", WrongType} }
    \cup {Undefined}

EnvEncaissementsArgs ==
    { Args(0, 0, 0, sd, ed, "tous", "absent") :
        sd \in {NULL, <<2024, 1, 1>>}, ed \in {NULL, <<2024, 3, 31>>} }

EnvVentilerArgs == { Args(y, 0, 0, NULL, NULL, "tous", "absent") : y \in {0, 2024} }

\* what a call reads from its environment: the instant, the rejected call
EnvInputs ==
    { <<t, 0>> : t \in Instants } \cup { <<Epoch, f>> : f \in 1..4 }

InitEnv ==
    /\ invoices \in UNION { InvoiceTables(n) : n \in 0..MaxEnvRows }
    /\ payments \in SeqsUpTo(PaymentRows(Len(invoices)), MaxEnvRows - Len(invoices))
    /\ quotes \in UNION { QuoteTables(n) :
                             n \in 0..(MaxEnvRows - Len(invoices) - Len(payments)) }
    /\ tz \in {"utc", "west"}
    /\ tool = ""
    /\ args = NoArgs
    /\ result = NoResult
    /\ all_rows = {}
    /\ t_rows = {}
    /\ queries = << >>
    /\ stdin = << >>
    /\ handlers = {}
    /\ stdout = << >>
    /\ NoSync
    /\ NoApi

CallRevenue == \E a \in EnvRevenueArgs, e \in EnvInputs : execute(a, e[1], e[2])

CallQuotes == \E a \in EnvQuotesArgs, e \in EnvInputs : executeQuotes(a, e[1], e[2])

CallEncaissements ==
    \E a \in EnvEncaissementsArgs, e \in EnvInputs : executeEncaissements(a, e[1], e[2])

CallVentiler ==
    \E a \in EnvVentilerArgs, e \in EnvInputs : executeVentiler(a, e[1], e[2])

NextEnv == CallRevenue \/ CallQuotes \/ CallEncaissements \/ CallVentiler \/ Respond

SpecEnv == InitEnv /\ [][NextEnv]_vars

(***************************************************************************)
(* The server: FunctionalFacturationMCPServer.start reads stdin line by    *)
(* line; the 'line' listener is an async function, so it returns to the    *)
(* reader at its first pending await and the next line is handled while    *)
(* the store call is outstanding.                                          *)
(***************************************************************************)
\* A line of input: its text is empty or the JSON of a request; id is the
\* id of the request, name and a are params.name and params.arguments
Line(method, name, a) == [id |-> 0, method |-> method, name |-> name, a |-> a]

\* this.tools: the names setupTools registers; the model runs
\* calculate_revenue
RegisteredTools == {"calculate_revenue"}

ServerLines ==
    { Line("", "", NoArgs),
      Line("notifications/initialized", "", NoArgs),
      Line("initialize", "", NoArgs),
      Line("tools/list", "", NoArgs),
      Line("resources/list", "", NoArgs),
      Line("tools/call", "no_such_tool", NoArgs),
      Line("tools/call", "calculate_revenue",
           Args(2023, 0, 0, NULL, NULL, "tous", "false")),
      Line("tools/call", "calculate_revenue",
           Args(2024, 0, 0, NULL, NULL, "tous", WrongType)) }

\* mutation: no method is taken for a notification
isNotification_None(method) == FALSE

\* request.method.startsWith('notifications/')
isNotification(method) ==
    method \in {"notifications/initialized", "notifications/cancelled"}

\* the three shapes of a response: the result of initialize or tools/list,
\* the result of tools/call (text is the object JSON.stringify is given),
\* and a response with an error member
ProtocolResponse(id, what) == [id |-> id, member |-> "result", result |-> what]
ToolResponse(id, res) == [id |-> id, member |-> "result", text |-> res]
ErrorResponse(id, code) == [id |-> id, member |-> "error", code |-> code]

\* JSON-RPC codes of the error responses
MethodNotFound == 0 - 32601
ExecutionError == 0 - 32000

\* the store calls execute awaits for the arguments
awaited(a) ==
    IF validRevenueArgs(a) /\ destructured(a) THEN storeCalls(a) ELSE << >>

\* how tool.execute completes: its whole body is in try/catch and the
\* catch returns handleError(error), so a failure is a returned value
completion_Rethrown(a, t, f) ==
    [thrown |-> ~ resultOf(a, t, f).success, value |-> resultOf(a, t, f)]

completion(a, t, f) == [thrown |-> FALSE, value |-> resultOf(a, t, f)]

\* the response of tools/call once tool.execute has completed
callResponse(id, c) ==
    IF c.thrown THEN ErrorResponse(id, ExecutionError) ELSE ToolResponse(id, c.value)

\* handleRequest up to its first pending await: the response, or << >> when
\* none is written now (a notification, or a tool awaiting the store)
handleRequest(line) ==
    CASE isNotification(line.method) -> << >>
      [] line.method = "initialize" -> ProtocolResponse(line.id, "serverInfo")
      [] line.method = "tools/list" -> ProtocolResponse(line.id, "tools")
      [] line.method = "tools/call" ->
            IF line.name \notin RegisteredTools
            THEN ErrorResponse(line.id, MethodNotFound)
            ELSE IF awaited(line.a) = << >>
            THEN callResponse(line.id, completion(line.a, Epoch, 0))
            ELSE << >>
      [] OTHER -> ErrorResponse(line.id, MethodNotFound)

\* the request starts a tool invocation that awaits the store
suspends(line) ==
    /\ line.method = "tools/call"
    /\ line.name \in RegisteredTools
    /\ awaited(line.a) # << >>

InitServer ==
    /\ invoices \in UNION { InvoiceTables(n) : n \in 0..1 }
    /\ payments = << >>
    /\ quotes = << >>
    /\ tz = "utc"
    /\ tool = ""
    /\ args = NoArgs
    /\ result = NoResult
    /\ all_rows = {}
    /\ t_rows = {}
    /\ queries = << >>
    /\ stdin \in { [k \in DOMAIN f |-> [f[k] EXCEPT !.id = k]] :
                      f \in UNION { [1..n -> ServerLines] : n \in 1..MaxLines } }
    /\ handlers = {}
    /\ stdout = << >>
    /\ NoSync
    /\ NoApi

\* rl.on('line', ...): the listener runs for the next line up to its first
\* pending await, or to its end when nothing is awaited from the store
LineRead ==
    /\ stdin # << >>
    /\ LET line == Head(stdin)
       IN  /\ stdin' = Tail(stdin)
           /\ IF line.method = ""
              THEN UNCHANGED <<handlers, stdout>>
              ELSE IF suspends(line)
              THEN /\ handlers' = handlers \cup
                           {[id |-> line.id, a |-> line.a, pc |-> 1]}
                   /\ UNCHANGED stdout
              ELSE /\ stdout' = IF handleRequest(line) = << >>
                                THEN stdout
                                ELSE Append(stdout, handleRequest(line))
                   /\ UNCHANGED handlers
    /\ UNCHANGED <<syncVars, apiVars, invoices, payments, quotes, tz, tool, args, result,
                   all_rows, t_rows, queries>>

\* the store answers the call a handler awaits: the handler resumes up to
\* its next store call, or writes its response after the last one
StoreAnswers ==
    \E h \in handlers :
        /\ IF h.pc = Len(awaited(h.a))
           THEN /\ handlers' = handlers \ {h}
                /\ stdout' = Append(stdout,
                        callResponse(h.id, completion(h.a, Epoch, 0)))
           ELSE /\ handlers' = (handlers \ {h}) \cup {[h EXCEPT !.pc = h.pc + 1]}
                /\ UNCHANGED stdout
        /\ UNCHANGED <<syncVars, apiVars, invoices, payments, quotes, tz, tool, args, result,
                       all_rows, t_rows, queries, stdin>>

\* the store rejects the call a handler awaits: execute ends in its catch
\* and the handler writes its response
StoreRejects ==
    \E h \in handlers :
        /\ handlers' = handlers \ {h}
        /\ stdout' = Append(stdout,
                callResponse(h.id, completion(h.a, Epoch, h.pc)))
        /\ UNCHANGED <<syncVars, apiVars, invoices, payments, quotes, tz, tool, args, result,
                       all_rows, t_rows, queries, stdin>>

NextServer == LineRead \/ StoreAnswers \/ StoreRejects

SpecServer == InitServer /\ [][NextServer]_vars

(***************************************************************************)
(* SyncService.syncAll: the calls made on one service, each advancing from *)
(* one await to the next                                                   *)
(***************************************************************************)
\* no tool call, no line of input: the aggregation server is not running
NoServer ==
    /\ invoices = << >>
    /\ payments = << >>
    /\ quotes = << >>
    /\ tz = "utc"
    /\ tool = ""
    /\ args = NoArgs
    /\ result = NoResult
    /\ all_rows = {}
    /\ t_rows = {}
    /\ queries = << >>
    /\ stdin = << >>
    /\ handlers = {}
    /\ stdout = << >>

serverVars ==
    <<invoices, payments, quotes, tz, tool, args, result, all_rows, t_rows,
      queries, stdin, handlers, stdout>>

\* what the try block of syncAll awaits, in order
SyncSteps ==
    <<"mkdir", "connect", "initialize", "testConnection", "syncCategories",
      "syncCustomers", "syncProducts", "syncQuotes", "syncInvoices",
      "syncRecentData">>

StepNames == { SyncSteps[k] : k \in DOMAIN SyncSteps }

stepIndex(name) == CHOOSE k \in DOMAIN SyncSteps : SyncSteps[k] = name

\* the steps that ask the API, and those that write what they got
AsksApi(name) == stepIndex(name) >= stepIndex("testConnection")

WritesStore(name) == stepIndex(name) > stepIndex("testConnection")

\* the try block leaves for the finally block, where close() is awaited
toFinally(call, thrower) == [call EXCEPT !.pc = "finally", !.threw = thrower]

\* a call of syncAll, up to its first await: the guard, then the flag
syncAll ==
    \E c \in DOMAIN syncs :
        /\ syncs[c].pc = "idle"
        /\ IF isSyncing
           THEN /\ syncs' = [syncs EXCEPT ![c].pc = "returned"]
                /\ UNCHANGED isSyncing
           ELSE /\ isSyncing' = TRUE
                /\ syncs' = [syncs EXCEPT ![c].pc = "mkdir"]
        /\ UNCHANGED <<db, apiVars, serverVars>>

\* the awaited step resolves: the next one is called.  connect() assigns
\* Database.db when it is called; testConnection resolves with whether the
\* API gave a firm, and syncAll throws when it did not
StepResolves ==
    \E c \in DOMAIN syncs, connected \in BOOLEAN :
        LET call == syncs[c]
            name == call.pc
            k    == stepIndex(name)
            asked == [call EXCEPT
                        !.api = @ + (IF AsksApi(name) THEN 1 ELSE 0),
                        !.writes = @ + (IF WritesStore(name) THEN 1 ELSE 0)]
        IN  /\ name \in StepNames
            /\ name # "testConnection" => connected
            /\ syncs' = [syncs EXCEPT ![c] =
                    IF ~ connected THEN toFinally(asked, name)
                    ELSE IF k = Len(SyncSteps) THEN toFinally(asked, "")
                    ELSE [asked EXCEPT !.pc = SyncSteps[k + 1]]]
            /\ db' = IF name = "mkdir" THEN "set" ELSE db
            /\ UNCHANGED <<isSyncing, apiVars, serverVars>>

\* the awaited step rejects: catch logs and rethrows.  A synchronisation
\* step may have written part of its rows before it failed
StepRejects ==
    \E c \in DOMAIN syncs, w \in {0, 1} :
        LET call == syncs[c]
            name == call.pc
        IN  /\ name \in StepNames
            /\ w = 1 => WritesStore(name)
            /\ syncs' = [syncs EXCEPT ![c] =
                    toFinally([call EXCEPT
                                 !.api = @ + (IF AsksApi(name) THEN 1 ELSE 0),
                                 !.writes = @ + w], name)]
            /\ UNCHANGED <<isSyncing, db, apiVars, serverVars>>

\* finally: database.close() resolves, then the flag is put down
CloseResolves ==
    \E c \in DOMAIN syncs :
        /\ syncs[c].pc = "finally"
        /\ isSyncing' = FALSE
        /\ syncs' = [syncs EXCEPT ![c].pc =
                        IF syncs[c].threw = "" THEN "done" ELSE "failed"]
        /\ UNCHANGED <<db, apiVars, serverVars>>

\* finally: database.close() rejects (db.close reports an error): the
\* finally block is left by the rejection, before its second statement
CloseRejects ==
    \E c \in DOMAIN syncs :
        /\ syncs[c].pc = "finally"
        /\ db = "set"
        /\ syncs' = [syncs EXCEPT ![c] =
                        [syncs[c] EXCEPT !.pc = "failed", !.threw = "close"]]
        /\ UNCHANGED <<isSyncing, db, apiVars, serverVars>>

InitSync == NoServer /\ NoSync /\ NoApi

NextSync ==
    syncAll \/ StepResolves \/ StepRejects \/ CloseResolves \/ CloseRejects

SpecSync == InitSync /\ [][NextSync]_vars

(***************************************************************************)
(* BaseApiClient: the rate limiter of get and getPaginated and the retry   *)
(* of the response interceptor.  Time is Date.now() in ms and advances by  *)
(* half minutes; a timer fires at or after its delay.                      *)
(***************************************************************************)
maxRequestsPerMinute == 30

Minute == 60000

PagePause == 1000

\* the request of call c is handed to the HTTP client
inFlight(req, how) == [req EXCEPT !.pc = "in_flight", !.via = how, !.sentAt = now]

\* the timer of call c is armed
waiting(req, where, ms) == [req EXCEPT !.pc = where, !.armed = now, !.delay = ms]

\* _checkRateLimit up to its await or, when it does not wait, to its end and
\* the client.get that follows it
checkRateLimit(c, req) ==
    LET expired  == now - lastResetTime >= Minute
        count    == IF expired THEN 0 ELSE requestCount
        last     == IF expired THEN now ELSE lastResetTime
        since    == IF expired THEN 0 ELSE sent
        waitTime == Minute - (now - last)
    IN  /\ lastResetTime' = last
        /\ IF count >= maxRequestsPerMinute /\ waitTime > 0
           THEN /\ requestCount' = count
                /\ sent' = since
                /\ requests' = [requests EXCEPT ![c] = waiting(req, "limit_wait", waitTime)]
           ELSE /\ requestCount' = count + 1
                /\ sent' = since + 1
                /\ requests' = [requests EXCEPT ![c] = inFlight(req, "check")]
        /\ UNCHANGED <<now, syncVars, serverVars>>

\* get(endpoint, params)
get ==
    \E c \in DOMAIN requests :
        /\ requests[c].pc = "idle"
        /\ checkRateLimit(c, requests[c])

\* getPaginated(endpoint, params), up to the request of its first page
getPaginated ==
    \E c \in DOMAIN requests :
        /\ requests[c].pc = "idle"
        /\ checkRateLimit(c, [requests[c] EXCEPT !.page = 1])

\* the timer of _checkRateLimit fires: the counter is reset, then counts the
\* request, which is sent
LimitWaitOver ==
    \E c \in DOMAIN requests :
        /\ requests[c].pc = "limit_wait"
        /\ now >= requests[c].armed + requests[c].delay
        /\ requestCount' = 0 + 1
        /\ lastResetTime' = now
        /\ sent' = 1
        /\ requests' = [requests EXCEPT ![c] = inFlight(requests[c], "limit")]
        /\ UNCHANGED <<now, syncVars, serverVars>>

\* the API answers the request in flight with 2xx: get resolves, getPaginated
\* resolves or pauses before its next page, as the x-pagination header says
Answered ==
    \E c \in DOMAIN requests, more \in BOOLEAN :
        /\ requests[c].pc = "in_flight"
        /\ more => requests[c].page \in 1..(MaxPages - 1)
        /\ requests' = [requests EXCEPT ![c] =
                IF more
                THEN waiting([requests[c] EXCEPT !.page = @ + 1], "page_pause", PagePause)
                ELSE NotRequested]
        /\ UNCHANGED <<requestCount, lastResetTime, now, sent, syncVars, serverVars>>

\* the pause between two pages is over: _checkRateLimit, then the next page
NextPage ==
    \E c \in DOMAIN requests :
        /\ requests[c].pc = "page_pause"
        /\ now >= requests[c].armed + requests[c].delay
        /\ checkRateLimit(c, requests[c])

\* the API answers 429: the response interceptor awaits _waitForRateLimit
TooManyRequests ==
    \E c \in DOMAIN requests :
        /\ requests[c].pc = "in_flight"
        /\ requests' = [requests EXCEPT ![c] = waiting(requests[c], "retry_wait", Minute)]
        /\ UNCHANGED <<requestCount, lastResetTime, now, sent, syncVars, serverVars>>

\* the timer of _waitForRateLimit fires: the counter is reset and the
\* interceptor sends the request again with this.client(originalRequest)
RetryWaitOver ==
    \E c \in DOMAIN requests :
        /\ requests[c].pc = "retry_wait"
        /\ now >= requests[c].armed + requests[c].delay
        /\ requestCount' = 0
        /\ lastResetTime' = now
        /\ sent' = 1
        /\ requests' = [requests EXCEPT ![c] = inFlight(requests[c], "retry")]
        /\ UNCHANGED <<now, syncVars, serverVars>>

\* the request fails otherwise: the interceptor rejects, the call throws
RequestFails ==
    \E c \in DOMAIN requests :
        /\ requests[c].pc = "in_flight"
        /\ requests' = [requests EXCEPT ![c] = NotRequested]
        /\ UNCHANGED <<requestCount, lastResetTime, now, sent, syncVars, serverVars>>

\* half a minute passes
TimePasses ==
    /\ now < MaxTicks * (Minute \div 2)
    /\ now' = now + (Minute \div 2)
    /\ UNCHANGED <<requestCount, lastResetTime, requests, sent, syncVars, serverVars>>

InitApi == NoServer /\ NoSync /\ NoApi

NextApi ==
    \/ get
    \/ getPaginated
    \/ LimitWaitOver
    \/ Answered
    \/ NextPage
    \/ TooManyRequests
    \/ RetryWaitOver
    \/ RequestFails
    \/ TimePasses

SpecApi == InitApi /\ [][NextApi]_vars

(***************************************************************************)
(* Vocabulary of the properties                                            *)
(***************************************************************************)
\* the state holds the result of a call
Called == tool = "calculate_revenue" /\ result.success

\* the call ran in COLLECTED mode / in INVOICED mode
Collected == Called /\ byPaymentDate(args)
Invoiced == Called /\ ~ byPaymentDate(args)

\* the call gave its period as year = Y only
YearCall == Called /\ args.year # 0 /\ ~ hasDates(args)

\* the invoice has a payments row dated in [lo, hi]
HasLedgerRow(id, lo, hi) ==
    \E k \in PaymentIds :
        payments[k].invoice_id = id /\ Between(payments[k].payment_date, lo, hi)

\* the queried window, and the window of the monthly query
QLo == currentStartDate(args)
QHi == currentEndDate(args)
MLo == yearStart(args)
MHi == yearEnd(args)

\* the derived rule, as the specification words it
Owed(i) == IF i.balance.k = "real" THEN i.balance.v ELSE 0
SettledOn(i) == IF i.payment_date # NULL THEN i.payment_date ELSE i.updated_at
FullIn(i, lo, hi) == i.status = 1 /\ Between(i.paid_on, lo, hi)
\* the day of a date or datetime is one of the days lo .. hi
DayIn(x, lo, hi) ==
    x # NULL /\ Between(<<x[1], x[2], x[3]>>, lo, hi)

PartialIn(i, lo, hi) ==
    0 < Owed(i) /\ Owed(i) < i.total_ttc /\ DayIn(SettledOn(i), lo, hi)

\* the payments of an invoice dated in [lo, hi]
LedgerIds(id, lo, hi) ==
    { k \in PaymentIds :
        payments[k].invoice_id = id /\ Between(payments[k].payment_date, lo, hi) }

\* no row of the invoice comes from a derived branch
NoDerived(rows, id) ==
    \A r \in { x \in rows : x.invoice_id = id } : r.src = "p"

\* each payment of the invoice dated in [lo, hi] is one row, with its amounts
LedgerOnce(rows, id, lo, hi) ==
    /\ \A r \in { x \in rows : x.invoice_id = id /\ x.src = "p" } :
          /\ r.id \in LedgerIds(id, lo, hi)
          /\ r.amount_ttc = RInt(payments[r.id].amount_ttc)
          /\ r.amount_ht = RInt(payments[r.id].amount_ht)
          /\ r.amount_vat = RInt(payments[r.id].amount_vat)
    /\ \A k \in LedgerIds(id, lo, hi) :
          Cardinality({ r \in rows : r.src = "p" /\ r.id = k }) = 1

\* the rows of a relation that stand for one invoice
RowsOf(rows, id) == { r \in rows : r.invoice_id = id }

\* what the rows of one invoice add to the sums of a relation
Amounts(ttc, ht, vat) == [ttc |-> ttc, ht |-> ht, vat |-> vat]

Contribution(rows, id) ==
    Amounts(SumField(RowsOf(rows, id), "amount_ttc"),
            SumField(RowsOf(rows, id), "amount_ht"),
            SumField(RowsOf(rows, id), "amount_vat"))

\* the same, restricted to the rows of one month / of the other months
ContributionIn(rows, id, month) ==
    Contribution({ r \in rows : r.month = month }, id)

ContributionOutside(rows, id, month) ==
    Contribution({ r \in rows : r.month # month }, id)

Nothing == Amounts(Zero, Zero, Zero)

FullAmounts(i) == Amounts(RInt(i.total_ttc), RInt(i.total_ht), RInt(i.vat_amount))

\* total_ttc - balance, total_ht * (total_ttc - balance) / total_ttc,
\* vat_amount * (total_ttc - balance) / total_ttc
PartialAmounts(i) ==
    Amounts(RInt(i.total_ttc - Owed(i)),
            RDiv(RInt(i.total_ht * (i.total_ttc - Owed(i))), RInt(i.total_ttc)),
            RDiv(RInt(i.vat_amount * (i.total_ttc - Owed(i))), RInt(i.total_ttc)))

RECURSIVE SumMonths(_, _, _)
SumMonths(breakdown, f, m) ==
    IF m = 0 THEN Zero
    ELSE RAdd(breakdown[m][f], SumMonths(breakdown, f, m - 1))

(***************************************************************************)
(* C1 (P1, additivity).  For a call with year = Y, in either mode and on   *)
(* either COLLECTED path, the twelve monthly total_invoiced_ttc add up to  *)
(* revenue.total_invoiced_ttc.                                             *)
(***************************************************************************)
C1_Additivity ==
    YearCall =>
        SumMonths(result.data.revenue.monthly_breakdown, "total_invoiced_ttc", 12)
            = result.data.revenue.total_invoiced_ttc

(***************************************************************************)
(* C2 (P3, no double counting), as claimed.  In COLLECTED mode an invoice  *)
(* with a payments row dated in the queried window that also qualifies     *)
(* under the derived rule is counted through its ledger rows only, in the  *)
(* totals and in every monthly row.                                        *)
(***************************************************************************)
C2_LedgerOnly_QueriedWindow ==
    Collected =>
        \A id \in InvoiceIds :
            (/\ HasLedgerRow(id, QLo, QHi)
             /\ (FullIn(invoices[id], QLo, QHi) \/ PartialIn(invoices[id], QLo, QHi)))
            => (/\ NoDerived(all_rows, id)
                /\ LedgerOnce(all_rows, id, QLo, QHi)
                /\ NoDerived(t_rows, id))

(***************************************************************************)
(* C2, amended.  Each of the two queries counts such an invoice through    *)
(* its ledger rows only, with respect to the window of that query: the     *)
(* queried window for the totals, the monthly window for the monthly rows  *)
(* (the year start_year alone for a start_year/end_year call).             *)
(***************************************************************************)
C2_LedgerOnly_PerQuery ==
    Collected =>
        \A id \in InvoiceIds :
            /\ (/\ HasLedgerRow(id, QLo, QHi)
                /\ (FullIn(invoices[id], QLo, QHi) \/ PartialIn(invoices[id], QLo, QHi)))
               => (NoDerived(all_rows, id) /\ LedgerOnce(all_rows, id, QLo, QHi))
            /\ (/\ HasLedgerRow(id, MLo, MHi)
                /\ (FullIn(invoices[id], MLo, MHi) \/ PartialIn(invoices[id], MLo, MHi)))
               => (NoDerived(t_rows, id) /\ LedgerOnce(t_rows, id, MLo, MHi))

\* a call over a window holding a payment of an invoice that the derived
\* rule would count too, next to an invoice counted by the derived rule
C2_Witness ==
    /\ Collected
    /\ \E id \in InvoiceIds :
          /\ HasLedgerRow(id, QLo, QHi) /\ HasLedgerRow(id, MLo, MHi)
          /\ FullIn(invoices[id], QLo, QHi) /\ FullIn(invoices[id], MLo, MHi)
    /\ \E r \in all_rows : r.src = "full"
    /\ \E r \in t_rows : r.src = "partial"

(***************************************************************************)
(* C3 (FULL takes precedence).  In COLLECTED mode an invoice without a     *)
(* payments row in the window that satisfies both the FULL and the PARTIAL *)
(* condition contributes as FULL only: every row standing for it, in the   *)
(* totals and in the monthly breakdown, carries its full amounts, and      *)
(* there is at most one such row per query.                                *)
(***************************************************************************)
C3_FullPrecedence ==
    Collected =>
        \A id \in InvoiceIds :
            (/\ ~ HasLedgerRow(id, QLo, QHi)
             /\ FullIn(invoices[id], QLo, QHi)
             /\ PartialIn(invoices[id], QLo, QHi))
            => (/\ \A r \in RowsOf(all_rows, id) \cup RowsOf(t_rows, id) :
                      Amounts(r.amount_ttc, r.amount_ht, r.amount_vat)
                          = FullAmounts(invoices[id])
                /\ Cardinality(RowsOf(all_rows, id)) <= 1
                /\ Cardinality(RowsOf(t_rows, id)) <= 1)

(***************************************************************************)
(* C4 (Scenario B).  In COLLECTED mode an invoice with                     *)
(* 0 < balance < total_ttc, not FULL and without a payments row in the     *)
(* window, whose COALESCE(payment_date, updated_at) falls in the window    *)
(* adds total_ttc - balance, and total_ht and vat_amount scaled by         *)
(* (total_ttc - balance) / total_ttc, to the totals and to the monthly row *)
(* of the month of that date.                                              *)
(***************************************************************************)
C4_PartialProRata ==
    Collected =>
        \A id \in InvoiceIds :
            (/\ PartialIn(invoices[id], QLo, QHi)
             /\ ~ FullIn(invoices[id], QLo, QHi)
             /\ ~ HasLedgerRow(id, QLo, QHi))
            => (/\ Contribution(all_rows, id) = PartialAmounts(invoices[id])
                /\ ContributionIn(t_rows, id, MonthOf(SettledOn(invoices[id])))
                       = PartialAmounts(invoices[id]))

(***************************************************************************)
(* C5 (Scenario A), as claimed.  In COLLECTED mode an invoice with         *)
(* status = 1 and paid_on in the queried window, without a payments row in *)
(* that window, adds its full total_ttc, total_ht and vat_amount to the    *)
(* totals and to the monthly row of the month of paid_on, whether its      *)
(* balance is NULL, '' or 0.                                               *)
(***************************************************************************)
C5_Full_QueriedWindow ==
    Collected =>
        \A id \in InvoiceIds :
            (/\ FullIn(invoices[id], QLo, QHi)
             /\ Owed(invoices[id]) = 0
             /\ ~ HasLedgerRow(id, QLo, QHi))
            => (/\ Contribution(all_rows, id) = FullAmounts(invoices[id])
                /\ ContributionIn(t_rows, id, MonthOf(invoices[id].paid_on))
                       = FullAmounts(invoices[id]))

(***************************************************************************)
(* C5, amended.  The totals take the full amounts for the queried window;  *)
(* the monthly row of the month of paid_on takes them when paid_on is in   *)
(* the monthly window and the invoice has no payments row in that window,  *)
(* and no other monthly row takes anything from it.                        *)
(***************************************************************************)
C5_Full_PerQuery ==
    Collected =>
        \A id \in InvoiceIds :
            /\ (/\ FullIn(invoices[id], QLo, QHi)
                /\ Owed(invoices[id]) = 0
                /\ ~ HasLedgerRow(id, QLo, QHi))
               => Contribution(all_rows, id) = FullAmounts(invoices[id])
            /\ (/\ FullIn(invoices[id], MLo, MHi)
                /\ Owed(invoices[id]) = 0
                /\ ~ HasLedgerRow(id, MLo, MHi))
               => (/\ ContributionIn(t_rows, id, MonthOf(invoices[id].paid_on))
                          = FullAmounts(invoices[id])
                   /\ ContributionOutside(t_rows, id, MonthOf(invoices[id].paid_on))
                          = Nothing)

\* Scenario A next to paid invoices whose balance is NULL and '': the totals
\* hold the three invoices, the row of November holds the one paid in the
\* year of the monthly window
C5_Witness ==
    /\ Collected
    /\ Len(payments) = 0
    /\ \E a, b, c \in InvoiceIds :
          /\ invoices[a].balance = BalReal(0) /\ invoices[a].total_ttc = 12
          /\ invoices[b].balance = BalNull /\ invoices[b].total_ttc = 6
          /\ invoices[c].balance = BalEmpty /\ invoices[c].total_ttc = 5
          /\ \A id \in {a, b, c} : FullIn(invoices[id], QLo, QHi)
          /\ FullIn(invoices[c], MLo, MHi)
    /\ result.data.revenue.total_invoiced_ttc = RInt(23)
    /\ result.data.revenue.total_invoiced_ht = RInt(19)
    /\ result.data.revenue.monthly_breakdown[11].total_invoiced_ttc = RInt(5)

StoreConsistent ==
    /\ \A id \in InvoiceIds :
          invoices[id].total_ttc = invoices[id].total_ht + invoices[id].vat_amount
    /\ \A k \in PaymentIds :
          payments[k].amount_ttc = payments[k].amount_ht + payments[k].amount_vat

C7_HtPlusVat ==
    (Called /\ StoreConsistent) =>
        /\ RAdd(result.data.revenue.total_invoiced_ht, result.data.revenue.total_vat_amount)
               = result.data.revenue.total_invoiced_ttc
        /\ \A m \in 1..12 :
              RAdd(result.data.revenue.monthly_breakdown[m].total_invoiced_ht,
                   result.data.revenue.monthly_breakdown[m].total_vat_amount)
                  = result.data.revenue.monthly_breakdown[m].total_invoiced_ttc

\* a ledger-path call whose totals and monthly rows mix a payment with a
\* pro-rated invoice, HT and VAT being fractions
C7_Witness ==
    /\ Called /\ StoreConsistent
    /\ \E r \in all_rows : r.src = "p"
    /\ \E r \in all_rows : r.src = "partial" /\ r.amount_ht.d # 1
    /\ \E r \in t_rows : r.src = "partial" /\ r.amount_vat.d # 1
    /\ result.data.revenue.total_invoiced_ht.d # 1

(***************************************************************************)
(* C8 (P4, ratio bounds).  For every invoice of the store the ratio        *)
(* (total_ttc - balance) / total_ttc is computed without a division by     *)
(* zero, is 0 when total_ttc = 0, and is strictly between 0 and 1 when     *)
(* 0 < balance < total_ttc; every PARTIAL row of a query carries HT and    *)
(* VAT scaled by such a ratio.                                             *)
(***************************************************************************)
C8_RatioBounds ==
    /\ \A id \in InvoiceIds :
          LET i == invoices[id]
              q == paidRatioExpr(i)
          IN  /\ q.d # 0
              /\ i.total_ttc = 0 => q = Zero
              /\ (0 < Owed(i) /\ Owed(i) < i.total_ttc)
                     => (RLess(Zero, q) /\ RLess(q, RInt(1)))
    /\ \A r \in { x \in all_rows \cup t_rows : x.src = "partial" } :
          LET i == invoices[r.invoice_id]
              q == RDiv(r.amount_ttc, RInt(i.total_ttc))
          IN  /\ RLess(Zero, q) /\ RLess(q, RInt(1))
              /\ r.amount_ht = RMul(RInt(i.total_ht), q)
              /\ r.amount_vat = RMul(RInt(i.vat_amount), q)

\* a call that pro-rates an invoice while the store holds an invoice of
\* total 0 with a balance
C8_Witness ==
    /\ Called
    /\ \E r \in all_rows : r.src = "partial"
    /\ \E r \in t_rows : r.src = "partial"
    /\ \E id \in InvoiceIds :
          invoices[id].total_ttc = 0 /\ Owed(invoices[id]) > 0

(***************************************************************************)
(* C9 (Scenario D).  In INVOICED mode the totals are the plain sums of     *)
(* total_ttc, total_ht and vat_amount over the invoices whose invoice_date *)
(* is in the period and whose status matches the filter; balance, paid_on, *)
(* payment_date and the payments table are not read.                       *)
(***************************************************************************)
StatusMatches(i, status) ==
    /\ status = "paye" => i.status = 1
    /\ status = "non_paye" => i.status = 0

IssuedInPeriod ==
    { id \in InvoiceIds :
        /\ Between(invoices[id].invoice_date, QLo, QHi)
        /\ StatusMatches(invoices[id], args.status) }

RECURSIVE PlainSum(_, _)
PlainSum(ids, f) ==
    IF ids = {} THEN 0
    ELSE LET id == CHOOSE x \in ids : TRUE
         IN  invoices[id][f] + PlainSum(ids \ {id}, f)

C9_InvoicedPlainSums ==
    Invoiced =>
        /\ result.data.revenue.total_invoiced_ttc = RInt(PlainSum(IssuedInPeriod, "total_ttc"))
        /\ result.data.revenue.total_invoiced_ht = RInt(PlainSum(IssuedInPeriod, "total_ht"))
        /\ result.data.revenue.total_vat_amount = RInt(PlainSum(IssuedInPeriod, "vat_amount"))
        /\ \A k \in DOMAIN queries : queries[k].op # "getPaymentsCountBetween"

\* status = 'paye' for 2023 over a store with a paid and an unpaid invoice
\* issued in 2023 and a payment dated in 2023
C9_Witness ==
    /\ Invoiced
    /\ args.status = "paye" /\ args.year = 2023 /\ ~ hasDates(args)
    /\ IssuedInPeriod # {}
    /\ \E id \in InvoiceIds :
          /\ invoices[id].status = 0 /\ Owed(invoices[id]) > 0
          /\ Between(invoices[id].invoice_date, QLo, QHi)
    /\ \E k \in PaymentIds : Between(payments[k].payment_date, QLo, QHi)

(***************************************************************************)
(* C10.  The status argument applies in INVOICED mode only: a COLLECTED    *)
(* call returns the same object whatever the value of status.              *)
(***************************************************************************)
C10_StatusIgnoredWhenCollected ==
    Collected =>
        \A st \in {"tous", "paye", "non_paye"} :
            resultOf([args EXCEPT !.status = st], result.timestamp, 0) = result

\* a COLLECTED call with status = 'non_paye' whose totals hold a paid invoice
C10_Witness ==
    /\ Collected
    /\ args.status = "non_paye"
    /\ \E id \in InvoiceIds :
          /\ invoices[id].status = 1
          /\ Contribution(all_rows, id) = FullAmounts(invoices[id])
          /\ invoices[id].total_ttc > 0

(***************************************************************************)
(* C11 (Scenario E, fill with zero).  Every successful calculate_revenue   *)
(* or calculate_quotes_revenue result has a monthly breakdown of exactly   *)
(* 12 rows, month = 1..12 in order, each with its French month name; a     *)
(* month without data has count and amounts 0, and an empty store gives    *)
(* twelve zero rows and zero totals.                                       *)
(***************************************************************************)
FrenchMonths ==
    <<"Janvier", "Fevrier", "Mars", "Avril", "Mai", "Juin", "Juillet",
      "Aout", "Septembre", "Octobre", "Novembre", "Decembre">>

RevenueDone == tool = "calculate_revenue" /\ result.success
QuotesDone == tool = "calculate_quotes_revenue" /\ result.success

EmptyStore == invoices = << >> /\ payments = << >> /\ quotes = << >>

ZeroRevenueMonth(e) ==
    /\ e.total_invoices = 0
    /\ e.total_invoiced_ttc = Zero
    /\ e.total_invoiced_ht = Zero
    /\ e.total_vat_amount = Zero

ZeroQuotesMonth(e) ==
    /\ e.total_quotes = 0
    /\ e.total_quouted_ttc = Zero
    /\ e.total_quouted_ht = Zero
    /\ e.total_vat_amount = Zero

TwelveMonths(bd) ==
    /\ DOMAIN bd = 1..12
    /\ \A m \in 1..12 : bd[m].month = m /\ bd[m].month_name = FrenchMonths[m]

C11_TwelveRows ==
    /\ RevenueDone =>
          LET bd == result.data.revenue.monthly_breakdown
          IN  /\ TwelveMonths(bd)
              /\ \A m \in 1..12 :
                    (\A r \in t_rows : r.month # m) => ZeroRevenueMonth(bd[m])
              /\ EmptyStore => ZeroRevenueMonth(result.data.revenue)
    /\ QuotesDone =>
          LET bd == result.data.quotes.monthly_breakdown
          IN  /\ TwelveMonths(bd)
              /\ \A m \in 1..12 :
                    (\A r \in t_rows : r.month # m) => ZeroQuotesMonth(bd[m])
              /\ EmptyStore => ZeroQuotesMonth(result.data.quotes)

\* Scenario E: calculate_revenue for a year over an empty store
C11_Witness ==
    /\ RevenueDone
    /\ EmptyStore
    /\ args.year = 2024 /\ ~ hasDates(args)
    /\ Len(queries) = 4

(***************************************************************************)
(* C12 (monthly window).  The monthly breakdown of calculate_revenue is    *)
(* computed over January 1 to December 31 of the anchor year (the year of  *)
(* start_date, or the explicit year), whether or not the call gave a       *)
(* start_date/end_date range, in COLLECTED and in INVOICED mode; data      *)
(* dated in another year lands in no monthly row.                          *)
(***************************************************************************)
\* the monthly query of the call
MonthlyQuery == queries[Len(queries)]

\* the date that puts a row of the monthly query in its month
RowDate(r) ==
    CASE r.src = "p" -> payments[r.id].payment_date
      [] r.src = "full" -> invoices[r.invoice_id].paid_on
      [] r.src = "partial" -> SettledOn(invoices[r.invoice_id])
      [] OTHER -> invoices[r.invoice_id].invoice_date

AnchorYear ==
    IF hasDates(args) THEN args.start_date[1]
    ELSE IF args.year # 0 THEN args.year
    ELSE result.data.year

C12_AnchorYearAlways ==
    Called =>
        /\ MonthlyQuery.op = "all"
        /\ MonthlyQuery.lo = <<AnchorYear, 1, 1>>
        /\ MonthlyQuery.hi = <<AnchorYear, 12, 31>>
        /\ \A r \in t_rows : RowDate(r)[1] = AnchorYear

(***************************************************************************)
(* C12, amended.  In INVOICED mode, and in COLLECTED mode unless           *)
(* start_date and end_date are both given, the monthly breakdown is        *)
(* computed over January 1 to December 31 of the reported year and data    *)
(* dated in another year lands in no monthly row; in COLLECTED mode with   *)
(* start_date and end_date it is computed over [start_date, end_date], the *)
(* window of the totals.                                                   *)
(***************************************************************************)
C12_AnchorYearUnlessCollectedRange ==
    Called =>
        /\ MonthlyQuery.op = "all"
        /\ IF Collected /\ hasDates(args)
           THEN /\ MonthlyQuery.lo = args.start_date
                /\ MonthlyQuery.hi = args.end_date
           ELSE /\ MonthlyQuery.lo = <<result.data.year, 1, 1>>
                /\ MonthlyQuery.hi = <<result.data.year, 12, 31>>
                /\ \A r \in t_rows : RowDate(r)[1] = result.data.year

\* a COLLECTED call for March and April 2024 whose monthly rows hold a March
\* payment while a part payment of May 2024 is in no row, and an INVOICED
\* call is covered by the witness of C9
C12_Witness ==
    /\ Collected /\ hasDates(args)
    /\ \E r \in t_rows : r.month = 3
    /\ \E id \in InvoiceIds :
          /\ PartialIn(invoices[id], <<2024, 1, 1>>, <<2024, 12, 31>>)
          /\ SettledOn(invoices[id])[2] = 5
          /\ \A r \in t_rows : r.invoice_id # id

(***************************************************************************)
(* C13 (InvalidPeriod).  A calculate_revenue call whose start_date or      *)
(* end_date is not a valid date text, or whose start_date is after         *)
(* end_date, returns an error result (success = false) without revenue     *)
(* figures, never a success result with totals.                            *)
(***************************************************************************)
NotADate(d) == d # NULL /\ (d[2] \notin 1..12 \/ d[3] \notin 1..31)

PeriodInvalid(a) ==
    \/ NotADate(a.start_date)
    \/ NotADate(a.end_date)
    \/ /\ a.start_date # NULL /\ a.end_date # NULL
       /\ ~ TextLE(a.start_date, a.end_date)

C13_InvalidPeriodRejected ==
    (tool = "calculate_revenue" /\ PeriodInvalid(args)) =>
        /\ ~ result.success
        /\ "data" \notin DOMAIN result

(***************************************************************************)
(* C14 (error envelope).  execute of calculate_revenue and of              *)
(* calculate_quotes_revenue always returns an object: a failure of the     *)
(* argument validation or of any store call gives success = false with an  *)
(* error message and no data payload, and success = true is returned only  *)
(* when every store call of the aggregation succeeded.                     *)
(***************************************************************************)
AggregationCall == tool \in {"calculate_revenue", "calculate_quotes_revenue"}

\* the store calls a complete aggregation makes
CallsOfAggregation ==
    IF tool = "calculate_quotes_revenue" THEN 2
    ELSE IF args.filter_by_payment_date = "false" THEN 2 ELSE 4

ArgumentsRejected ==
    \/ args.status = WrongType
    \/ tool = "calculate_revenue" /\ args.filter_by_payment_date = WrongType

C14_ErrorEnvelope ==
    AggregationCall =>
        /\ "success" \in DOMAIN result /\ result.success \in BOOLEAN
        /\ result.success =>
              /\ DOMAIN result = {"success", "data", "timestamp"}
              /\ ~ ArgumentsRejected
              /\ Len(queries) = CallsOfAggregation
              /\ \A k \in DOMAIN queries : queries[k].ok
        /\ ~ result.success =>
              /\ DOMAIN result = {"success", "error", "timestamp"}
              /\ result.error # ""
              /\ \/ ArgumentsRejected
                 \/ args = Undefined
                 \/ \E k \in DOMAIN queries : ~ queries[k].ok

\* calculate_revenue: the totals query answered with rows, then the count
\* of the monthly window rejected
C14_Witness ==
    /\ tool = "calculate_revenue"
    /\ ~ result.success
    /\ Len(queries) = 3 /\ ~ queries[3].ok
    /\ all_rows # {}

(***************************************************************************)
(* C15 (period selection).  When start_date and end_date are both given    *)
(* they are the queried window, even if year is given too, and the         *)
(* reported year is the year of start_date; otherwise a given year Y gives *)
(* the window [Y-01-01, Y-12-31]; when no period is given the window is    *)
(* the current calendar year.                                              *)
(***************************************************************************)
\* the totals query of a successful call
TotalsQuery == queries[CHOOSE k \in DOMAIN queries : queries[k].op = "get"]

NoPeriodGiven ==
    /\ args.year = 0 /\ args.start_year = 0 /\ args.end_year = 0
    /\ args.start_date = NULL /\ args.end_date = NULL

C15_PeriodSelection ==
    (RevenueDone /\ ~ PeriodInvalid(args)) =>
        /\ (args.start_date # NULL /\ args.end_date # NULL) =>
              /\ TotalsQuery.lo = args.start_date
              /\ TotalsQuery.hi = args.end_date
              /\ result.data.year = args.start_date[1]
        /\ (~ (args.start_date # NULL /\ args.end_date # NULL) /\ args.year # 0) =>
              /\ TotalsQuery.lo = <<args.year, 1, 1>>
              /\ TotalsQuery.hi = <<args.year, 12, 31>>
              /\ result.data.year = args.year
        /\ NoPeriodGiven =>
              /\ TotalsQuery.lo = <<CurrentYear, 1, 1>>
              /\ TotalsQuery.hi = <<CurrentYear, 12, 31>>
              /\ result.data.year = CurrentYear

(***************************************************************************)
(* C16 (default mode).  When filter_by_payment_date is omitted,            *)
(* calculate_revenue computes the COLLECTED figures: the result is the     *)
(* one of the same call with filter_by_payment_date = true and its         *)
(* query_type is 'paid'.                                                   *)
(***************************************************************************)
C16_DefaultIsCollected ==
    (Called /\ args.filter_by_payment_date = "absent") =>
        /\ result.data.query_type = "paid"
        /\ result = resultOf([args EXCEPT !.filter_by_payment_date = "true"],
                             result.timestamp, 0)
        /\ \E k \in DOMAIN queries : queries[k].op = "getPaymentsCountBetween"

\* a call without filter_by_payment_date over a store whose collected and
\* invoiced figures differ
C16_Witness ==
    /\ Called /\ args.filter_by_payment_date = "absent"
    /\ result.data.revenue.total_invoiced_ttc # Zero
    /\ resultOf([args EXCEPT !.filter_by_payment_date = "false"],
                result.timestamp, 0).data.revenue
           # result.data.revenue

(***************************************************************************)
(* C17 (ledger gate).  In COLLECTED mode the count of the payments of a    *)
(* window is issued and answered before the aggregation query of that      *)
(* window is issued; the query is the ledger-based one iff the count is    *)
(* > 0, and with a count of 0 the figures are the derived status/balance   *)
(* computation alone; in INVOICED mode the payments are never consulted.   *)
(***************************************************************************)
RevenueCall == tool = "calculate_revenue"

\* payments of the store dated in [lo, hi]
LedgerCount(lo, hi) ==
    Cardinality({ k \in PaymentIds :
                    /\ TextLE(lo, payments[k].payment_date)
                    /\ TextLE(payments[k].payment_date, hi) })

Aggregation(q) == q.op \in {"get", "all"}

C17_LedgerGate ==
    RevenueCall =>
        /\ \A k \in DOMAIN queries :
              (Aggregation(queries[k]) /\ args.filter_by_payment_date # "false") =>
                  /\ k > 1
                  /\ queries[k - 1].op = "getPaymentsCountBetween"
                  /\ queries[k - 1].ok
                  /\ queries[k - 1].lo = queries[k].lo
                  /\ queries[k - 1].hi = queries[k].hi
                  /\ queries[k].path \in {"ledger", "fallback"}
                  /\ queries[k].path = "ledger"
                         <=> LedgerCount(queries[k].lo, queries[k].hi) > 0
        /\ \A k \in DOMAIN queries :
              (queries[k].op = "get" /\ queries[k].ok /\ queries[k].path = "fallback")
                  => \A r \in all_rows : r.src = "case"
        /\ \A k \in DOMAIN queries :
              (queries[k].op = "all" /\ queries[k].ok /\ queries[k].path = "fallback")
                  => \A r \in t_rows : r.src \in {"full", "partial"}
        /\ args.filter_by_payment_date = "false" =>
              /\ \A k \in DOMAIN queries :
                    /\ queries[k].op # "getPaymentsCountBetween"
                    /\ queries[k].path = "invoiced"
              /\ \A r \in all_rows \cup t_rows : r.src = "invoice"

\* a start_year/end_year call whose totals take the ledger path and whose
\* monthly query, over the first year alone, falls back to the derived rows
C17_Witness ==
    /\ Collected
    /\ Len(queries) = 4
    /\ queries[2].path = "ledger" /\ queries[4].path = "fallback"
    /\ \E r \in all_rows : r.src = "p"
    /\ t_rows # {}

SameButTimestamp(r1, r2) ==
    /\ DOMAIN r1 = DOMAIN r2
    /\ \A f \in DOMAIN r1 \ {"timestamp"} : r1[f] = r2[f]

OnlyReads ==
    \A k \in DOMAIN queries :
        queries[k].op \in {"get", "all", "getPaymentsCountBetween"}

C19_StoreUnchanged ==
    /\ []OnlyReads
    /\ [][/\ invoices' = invoices
          /\ payments' = payments
          /\ quotes' = quotes]_vars

\* a wrapper call that went through the ledger of a store with a payment
C19_Witness ==
    /\ tool \in {"encaissements_periode", "ventiler_encaissements"}
    /\ result.success
    /\ payments # << >>
    /\ \E r \in all_rows : r.src = "p"

(***************************************************************************)
(* C20 (one request at a time).  For any sequence of input lines, a tool   *)
(* invocation started for one line runs to completion, its store calls     *)
(* answered and its response written, before the next line is handled: at  *)
(* no time are two tool invocations in progress.                           *)
(***************************************************************************)
C20_OneInvocationAtATime == Cardinality(handlers) <= 1

(***************************************************************************)
(* C21 (failures stay in the envelope).  For a tools/call request naming   *)
(* a registered tool, a failure of the tool's execution (arguments         *)
(* rejected, or a store call rejected) is written as a response with a     *)
(* result member whose text is the object { success: false, error:        *)
(* message } that handleError builds, never as a response with an error    *)
(* member.                                                                 *)
(***************************************************************************)
\* the response written by this step, if one is
Written == IF Len(stdout') = Len(stdout) + 1 THEN stdout'[Len(stdout')] ELSE << >>

\* the line read by this step is a call of a registered tool
ReadsCall ==
    /\ stdin # << >>
    /\ stdin' = Tail(stdin)
    /\ Head(stdin).method = "tools/call"
    /\ Head(stdin).name \in RegisteredTools

\* the invocation of handler h ends in this step
Ends(h) == h \in handlers /\ \A g \in handlers' : g.id # h.id

C21_FailureInEnvelope ==
    [][/\ ReadsCall /\ ~ validRevenueArgs(Head(stdin).a) =>
            Written = ToolResponse(Head(stdin).id,
                handleError(validateArgs(Head(stdin).a, {},
                                {"status", "filter_by_payment_date"}), Epoch))
       /\ \A h \in handlers :
            Ends(h) =>
                \/ Written = ToolResponse(h.id, formatResult(revenueData(h.a), Epoch))
                \/ Written = ToolResponse(h.id, handleError("SQLITE_ERROR", Epoch))]_vars

\* a response reporting a rejected store call, after one reporting rejected
\* arguments
C21_Witness ==
    \E j, k \in DOMAIN stdout :
        /\ j < k
        /\ "text" \in DOMAIN stdout[j] /\ "text" \in DOMAIN stdout[k]
        /\ ~ stdout[j].text.success /\ stdout[j].text.error # "SQLITE_ERROR"
        /\ ~ stdout[k].text.success /\ stdout[k].text.error = "SQLITE_ERROR"

(***************************************************************************)
(* C22 (quotes are additive).  The totals of calculate_quotes_revenue are  *)
(* the sums of total_ttc, total_ht and vat_amount over exactly the quotes  *)
(* whose quote_date lies in the period and whose status matches the        *)
(* filter ('acceptes' -> 1, 'en_attente' -> 0, 'refuses' -> 9, 'tous' ->   *)
(* any), and for a call with a single year the twelve monthly rows add up  *)
(* to those totals.                                                        *)
(***************************************************************************)
\* the status a filter value selects
FilterSelects(st, status) ==
    CASE st = "acceptes" -> status = 1
      [] st = "en_attente" -> status = 0
      [] st = "refuses" -> status = 9
      [] OTHER -> TRUE

\* the period of the call: the dates when both are given, else the year,
\* else the current year
PeriodLo ==
    IF args.start_date # NULL /\ args.end_date # NULL THEN args.start_date
    ELSE <<IF args.year # 0 THEN args.year ELSE CurrentYear, 1, 1>>

PeriodHi ==
    IF args.start_date # NULL /\ args.end_date # NULL THEN args.end_date
    ELSE <<IF args.year # 0 THEN args.year ELSE CurrentYear, 12, 31>>

QuotesInPeriod ==
    { j \in QuoteIds :
        /\ Between(quotes[j].quote_date, PeriodLo, PeriodHi)
        /\ FilterSelects(args.status, quotes[j].status) }

RECURSIVE QuoteSum(_, _)
QuoteSum(ids, f) ==
    IF ids = {} THEN 0
    ELSE LET id == CHOOSE x \in ids : TRUE
         IN  quotes[id][f] + QuoteSum(ids \ {id}, f)

C22_QuotesAdditive ==
    QuotesDone =>
        LET q == result.data.quotes
        IN  /\ q.total_quouted_ttc = RInt(QuoteSum(QuotesInPeriod, "total_ttc"))
            /\ q.total_quouted_ht = RInt(QuoteSum(QuotesInPeriod, "total_ht"))
            /\ q.total_vat_amount = RInt(QuoteSum(QuotesInPeriod, "vat_amount"))
            /\ (args.year # 0 /\ args.start_date = NULL /\ args.end_date = NULL) =>
                 /\ SumMonths(q.monthly_breakdown, "total_quouted_ttc", 12)
                        = q.total_quouted_ttc
                 /\ SumMonths(q.monthly_breakdown, "total_quouted_ht", 12)
                        = q.total_quouted_ht
                 /\ SumMonths(q.monthly_breakdown, "total_vat_amount", 12)
                        = q.total_vat_amount

\* a single-year call with a status filter that keeps one quote of the year
\* and leaves another out
C22_Witness ==
    /\ QuotesDone
    /\ args.year # 0 /\ args.start_date = NULL
    /\ args.status \in {"acceptes", "en_attente"}
    /\ Cardinality(QuotesInPeriod) = 1
    /\ \E j \in QuoteIds :
          j \notin QuotesInPeriod /\ Between(quotes[j].quote_date, PeriodLo, PeriodHi)
    /\ result.data.quotes.total_quouted_ttc # Zero

(***************************************************************************)
(* C23 (wrappers).  encaissements_periode(start_date, end_date) returns    *)
(* the result of calculate_revenue for that date range with                *)
(* filter_by_payment_date = true, end_date being today when omitted;       *)
(* ventiler_encaissements(year) returns the year, the total HT, TTC and    *)
(* VAT and the twelve monthly rows of calculate_revenue(year) with         *)
(* filter_by_payment_date = true; when the underlying computation fails,   *)
(* each wrapper returns that error result and no figures.                  *)
(***************************************************************************)
\* the calculate_revenue call each wrapper stands for
EncaissementsAsRevenue ==
    [year |-> 0, start_year |-> 0, end_year |-> 0,
     start_date |-> args.start_date,
     end_date |-> IF args.end_date = NULL THEN Today ELSE args.end_date,
     status |-> "tous", filter_by_payment_date |-> "true"]

VentilerAsRevenue ==
    [year |-> args.year, start_year |-> 0, end_year |-> 0,
     start_date |-> NULL, end_date |-> NULL,
     status |-> "tous", filter_by_payment_date |-> "true"]

\* the store call that was rejected in the call, 0 when none was
Rejected ==
    IF \E k \in DOMAIN queries : ~ queries[k].ok
    THEN CHOOSE k \in DOMAIN queries : ~ queries[k].ok
    ELSE 0

C23_WrappersEquivalent ==
    /\ (tool = "encaissements_periode" /\ args.start_date # NULL) =>
          /\ result = resultOf(EncaissementsAsRevenue, result.timestamp, Rejected)
          /\ ~ result.success => "data" \notin DOMAIN result
    /\ (tool = "ventiler_encaissements" /\ args.year # 0) =>
          LET rev == resultOf(VentilerAsRevenue, result.timestamp, Rejected)
          IN  /\ result.success = rev.success
              /\ result.success =>
                    /\ result.data.year = rev.data.year
                    /\ result.data.total_invoiced_ht = rev.data.revenue.total_invoiced_ht
                    /\ result.data.total_invoiced_ttc = rev.data.revenue.total_invoiced_ttc
                    /\ result.data.total_vat_amount = rev.data.revenue.total_vat_amount
                    /\ result.data.monthly = rev.data.revenue.monthly_breakdown
                    /\ Len(result.data.monthly) = 12
              /\ ~ result.success => result = rev /\ "data" \notin DOMAIN result

\* encaissements_periode without end_date, over a store with a payment
\* dated between start_date and today
C23_Witness ==
    /\ tool = "encaissements_periode"
    /\ args.start_date # NULL /\ args.end_date = NULL
    /\ result.success
    /\ result.data.revenue.total_invoiced_ttc # Zero
    /\ \E r \in all_rows : r.src = "p"

(***************************************************************************)
(* C24 (validation first).  When a required parameter is missing or a      *)
(* supplied parameter has the wrong type, the tool returns an error        *)
(* result and issues no query to the store; a call with no arguments       *)
(* object at all is accepted by a tool that has no required parameter.     *)
(***************************************************************************)
\* validateArgs of the tool called refuses the arguments
Refused ==
    \/ tool = "calculate_revenue" /\ ~ validRevenueArgs(args)
    \/ tool = "calculate_quotes_revenue" /\ ~ validQuotesArgs(args)
    \/ tool = "encaissements_periode" /\ ~ validEncaissementsArgs(args)
    \/ tool = "ventiler_encaissements" /\ ~ validVentilerArgs(args)

\* the tool called has no required parameter
NothingRequired == tool \in {"calculate_revenue", "calculate_quotes_revenue"}

C24_RefusedBeforeStore == Refused => ~ result.success /\ queries = << >>

C24_ValidationFirst ==
    /\ C24_RefusedBeforeStore
    /\ (NothingRequired /\ args = Undefined /\ \A k \in DOMAIN queries : queries[k].ok)
          => result.success

(***************************************************************************)
(* C25 (one response per request).  For any sequence of input lines        *)
(* holding requests, the server writes exactly one response, carrying the  *)
(* request's id, per request whose method does not start with              *)
(* 'notifications/', and none for a notification; a tools/call of an       *)
(* unknown tool and a call of an unknown method each get an error          *)
(* response with code -32601 and execute no tool.                          *)
(***************************************************************************)
\* ids of the requests not read yet, being handled, and answered
PendingIds == { stdin[k].id : k \in DOMAIN stdin }
HandledIds == { h.id : h \in handlers }
AnsweredIds == { stdout[k].id : k \in DOMAIN stdout }

\* no request is answered twice, or answered while pending or handled
AtMostOnce ==
    /\ \A j, k \in DOMAIN stdout : stdout[j].id = stdout[k].id => j = k
    /\ Cardinality(HandledIds) = Cardinality(handlers)
    /\ AnsweredIds \cap HandledIds = {}
    /\ PendingIds \cap (AnsweredIds \cup HandledIds) = {}

\* the methods and tools the server knows
KnownMethods == {"initialize", "tools/list", "tools/call"}
KnownTools == {"calculate_revenue"}

\* what reading the line `line` does in this step
ReadStep(line) ==
    IF line.method \in {"", "notifications/initialized"}
    THEN stdout' = stdout /\ handlers' = handlers
    ELSE /\ \/ /\ Written # << >> /\ Written.id = line.id
               /\ handlers' = handlers
            \/ /\ stdout' = stdout
               /\ handlers \subseteq handlers'
               /\ { h.id : h \in handlers' \ handlers } = {line.id}
         /\ (\/ line.method \notin KnownMethods
             \/ line.method = "tools/call" /\ line.name \notin KnownTools) =>
               /\ Written = [id |-> line.id, member |-> "error", code |-> 0 - 32601]
               /\ handlers' = handlers

\* what a step of a handler does: it goes on, or ends with its response;
\* a handler leaves only by this step, so a request read is answered once
\* its handling has ended
HandlerStep ==
    \/ stdout' = stdout /\ { h.id : h \in handlers' } = HandledIds
    \/ \E h \in handlers :
          /\ { g.id : g \in handlers' } = HandledIds \ {h.id}
          /\ Written # << >> /\ Written.id = h.id

C25_OneResponsePerRequest ==
    /\ []AtMostOnce
    /\ [][IF stdin' # stdin THEN ReadStep(Head(stdin)) ELSE HandlerStep]_vars

\* three lines all handled: the third was answered with an error before
\* the tool called by the first one had its answer, the second got none
C25_Witness ==
    /\ stdin = << >> /\ handlers = {}
    /\ Len(stdout) = 2
    /\ stdout[1].id = 3 /\ stdout[1].member = "error"
    /\ stdout[2].id = 1 /\ "text" \in DOMAIN stdout[2]

(***************************************************************************)
(* C26 (counts).  In COLLECTED mode revenue.total_invoices and             *)
(* revenue.unique_customers count only the invoices, and their customers,  *)
(* that contribute to the queried period, on the fallback path as on the   *)
(* ledger path: an invoice that is neither FULL nor PARTIAL in the window  *)
(* and has no ledger row in the window is not counted.                     *)
(***************************************************************************)
\* the invoices that contribute to the queried window
Contributing ==
    { id \in InvoiceIds :
        \/ HasLedgerRow(id, QLo, QHi)
        \/ FullIn(invoices[id], QLo, QHi)
        \/ PartialIn(invoices[id], QLo, QHi) }

C26_CountsContributing ==
    Collected =>
        /\ result.data.revenue.total_invoices = Cardinality(Contributing)
        /\ result.data.revenue.unique_customers
              = Cardinality({ invoices[id].customer_id : id \in Contributing })

(***************************************************************************)
(* C27 (average).  In COLLECTED mode on the fallback path                  *)
(* avg_invoice_amount is the average of the per-invoice contributions      *)
(* that are summed into total_invoiced_ttc: an invoice that contributes 0  *)
(* to total_invoiced_ttc (status = 0 with a balance of 0 or empty, for     *)
(* instance) does not enter the average.                                   *)
(***************************************************************************)
\* the call took the fallback path for its totals
OnFallback == Collected /\ ~ \E k \in PaymentIds : Between(payments[k].payment_date, QLo, QHi)

\* the invoices whose contribution is summed into total_invoiced_ttc
Summed ==
    { id \in InvoiceIds :
        FullIn(invoices[id], QLo, QHi) \/ PartialIn(invoices[id], QLo, QHi) }

C27_AverageOfSummed ==
    OnFallback =>
        result.data.revenue.avg_invoice_amount
            = IF Summed = {} THEN Zero
              ELSE RDiv(result.data.revenue.total_invoiced_ttc,
                        RInt(Cardinality(Summed)))

(***************************************************************************)
(* C28 (one window, one path).  Within one COLLECTED call the totals and   *)
(* the monthly breakdown are computed over the same window and on the      *)
(* same path (both from the ledger or both derived), for every form of     *)
(* period argument, start_year/end_year included, where the totals cover   *)
(* [start_year-01-01, end_year-12-31].                                     *)
(***************************************************************************)
\* the period is given by start_year and end_year alone
YearRange ==
    /\ args.start_date = NULL \/ args.end_date = NULL
    /\ args.year = 0
    /\ args.start_year # 0 /\ args.end_year # 0

SameWindowAndPath ==
    /\ MonthlyQuery.lo = TotalsQuery.lo
    /\ MonthlyQuery.hi = TotalsQuery.hi
    /\ MonthlyQuery.path = TotalsQuery.path

C28_SameWindowAndPath == Collected => SameWindowAndPath

\* as amended: a range of several years is the exception; its totals cover
\* the whole range and its monthly breakdown the first year, each on the
\* path the payments of its own window give
C28_SameWindowUnlessYearRange ==
    Collected =>
        IF YearRange /\ args.start_year # args.end_year
        THEN /\ TotalsQuery.lo = <<args.start_year, 1, 1>>
             /\ TotalsQuery.hi = <<args.end_year, 12, 31>>
             /\ MonthlyQuery.lo = <<args.start_year, 1, 1>>
             /\ MonthlyQuery.hi = <<args.start_year, 12, 31>>
             /\ TotalsQuery.path = "ledger"
                    <=> LedgerCount(TotalsQuery.lo, TotalsQuery.hi) > 0
             /\ MonthlyQuery.path = "ledger"
                    <=> LedgerCount(MonthlyQuery.lo, MonthlyQuery.hi) > 0
        ELSE SameWindowAndPath

\* a range of two years whose payments are all of the second year: totals
\* from the ledger, monthly breakdown derived
C28_Witness ==
    /\ Collected
    /\ YearRange /\ args.start_year # args.end_year
    /\ TotalsQuery.path = "ledger"
    /\ MonthlyQuery.path = "fallback"
    /\ result.data.revenue.total_invoiced_ttc # Zero

(***************************************************************************)
(* C29.  syncAll is not re-entrant: at most one call is past the guard, a  *)
(* call that met the guard gave the API nothing and wrote nothing; when no *)
(* call is running the in-progress flag is down, so that the next call     *)
(* runs; and a call whose API connection test failed wrote nothing.        *)
(***************************************************************************)
SyncRunning(c) == syncs[c].pc \in StepNames \cup {"finally"}

SyncEnded(c) == syncs[c].pc \in {"done", "failed"}

C29_NotReentrant ==
    /\ Cardinality({ c \in DOMAIN syncs : SyncRunning(c) }) <= 1
    /\ \A c \in DOMAIN syncs :
          syncs[c].pc = "returned" => syncs[c].api = 0 /\ syncs[c].writes = 0
    /\ (\A c \in DOMAIN syncs : ~ SyncRunning(c)) => ~ isSyncing
    /\ \A c \in DOMAIN syncs :
          syncs[c].threw = "testConnection" => syncs[c].writes = 0

\* the parts of C29 that do not depend on database.close()
C29_GuardAndApiTest ==
    /\ Cardinality({ c \in DOMAIN syncs : SyncRunning(c) }) <= 1
    /\ \A c \in DOMAIN syncs :
          syncs[c].pc = "returned" => syncs[c].api = 0 /\ syncs[c].writes = 0
    /\ (\A c \in DOMAIN syncs : syncs[c].threw # "close" /\ ~ SyncRunning(c))
          => ~ isSyncing
    /\ \A c \in DOMAIN syncs :
          syncs[c].threw = "testConnection" => syncs[c].writes = 0

\* a call ended by an error of the API test, a later one ran to its end, and
\* a third one met the guard
C29_Seen ==
    \E c, d, e \in DOMAIN syncs :
        /\ syncs[c].pc = "failed" /\ syncs[c].threw = "testConnection"
        /\ syncs[d].pc = "done" /\ syncs[d].writes > 0
        /\ syncs[e].pc = "returned"

(***************************************************************************)
(* C30.  The rate limiter keeps requestCount <= maxRequestsPerMinute: no   *)
(* more than 30 requests are sent between two resets of the counter, a     *)
(* request held back by the limit is sent only after the wait that resets  *)
(* the counter, and a request answered with 429 is sent again only after   *)
(* the 60-second wait.                                                     *)
(***************************************************************************)
SentAfterWait(how) ==
    \A c \in DOMAIN requests :
        requests[c].pc = "in_flight" /\ requests[c].via = how
            => /\ requests[c].sentAt >= requests[c].armed + requests[c].delay
               /\ requests[c].delay > 0

C30_RateLimited ==
    /\ requestCount <= maxRequestsPerMinute
    /\ sent <= maxRequestsPerMinute
    /\ SentAfterWait("limit")
    /\ SentAfterWait("retry") /\ \A c \in DOMAIN requests :
          requests[c].pc = "in_flight" /\ requests[c].via = "retry"
              => requests[c].delay = Minute

\* the parts of C30 about the counter and the two waits
C30_CounterAndWaits ==
    /\ requestCount <= maxRequestsPerMinute
    /\ SentAfterWait("limit")
    /\ SentAfterWait("retry") /\ \A c \in DOMAIN requests :
          requests[c].pc = "in_flight" /\ requests[c].via = "retry"
              => requests[c].delay = Minute

\* a request was held back at the limit and sent after its wait
C30_Seen ==
    \E c \in DOMAIN requests :
        requests[c].pc = "in_flight" /\ requests[c].via = "limit"

====
